---- MODULE Spec2Model ----
(***************************************************************************)
(* Verification model of kossakovsky/transcriber.                          *)
(*                                                                         *)
(*   transcribe.js  the chunked OpenAI/Whisper script   (SpecTranscribe)   *)
(*   index.js       the ElevenLabs video batch          (SpecIndex)        *)
(*   the role-labelling script (types/installers.d.ts)  (SpecRoles)        *)
(*                                                                         *)
(* Every external effect (existsSync, ffprobe, ffmpeg, axios.post,         *)
(* writeFileSync, rmSync, the inquirer menu) is a nondeterministic choice  *)
(* over the outcomes the call can have.  A JavaScript string is a sequence *)
(* of tokens; a token names the piece of text it stands for.               *)
(***************************************************************************)
EXTENDS Integers, Sequences, FiniteSets, TLC

\* ------------------------------------------------------------------ bounds
\* Length of filesToTranscribe.
MaxFiles == 2
\* Number of segment files the transcoder may write into the temp directory.
MaxSegments == 3
\* Number of video files main works through.
MaxVideos == 2
\* Largest duration, file size and target chunk size handed to the planner.
MaxDuration == 5
MaxFileSize == 6
MaxTarget == 4
\* Length of the transcripts handed to the text split (and twice that).
MaxTextLen == 25
\* Length of filesToProcess.
MaxTranscripts == 2

\* --------------------------------------------------- JavaScript values
\* undefined, and a string as a sequence of tokens.
Undefined == [t |-> "undefined", s |-> << >>]
Str(tokens) == [t |-> "string", s |-> tokens]
\* A file that does not exist.
NoFile == [t |-> "nofile", s |-> << >>]

\* A path: directory and base name.
Path(dir, name) == [dir |-> dir, name |-> name]
\* path.basename(p)
Basename(p) == p.name

\* The text the speech-to-text service recognises in the audio at path p.
TextOf(p) == [kind |-> "text", src |-> p.dir, name |-> p.name]
\* The "\n\n" separator of Array.prototype.join("\n\n").
Sep == [kind |-> "sep", src |-> << >>, name |-> << >>]
\* Content of a transcript that was on disk before the run.
OldText == Str(<<[kind |-> "old", src |-> << >>, name |-> << >>]>>)

\* ============================================================ transcribe.js

OPENAI_API_LIMIT_MB == 25
CHUNK_SIZE_MB == 20
MAX_FILE_SIZE == OPENAI_API_LIMIT_MB * 1024 * 1024
TARGET_CHUNK_SIZE_BYTES == CHUNK_SIZE_MB * 1024 * 1024

VARIABLES
    apiKeySet,          \* OPENAI_API_KEY is a non-empty string
    filesToTranscribe,  \* the list of source paths
    tpc,                \* position of the script
    fileIdx,            \* main's loop variable i
    tempDir,            \* transcribeFile's tempDir (NoDir stands for null)
    tmpOnDisk,          \* the temp directories that exist on disk
    chunksOnDisk,       \* indexes of the chunk files ffmpeg wrote into tempDir
    sources,            \* source path -> { duration, size } of the file
    metadata,           \* { duration, size } as probed for the current file
    chunkPaths,         \* result of splitAudioFile
    transcriptParts,    \* transcribeFile's transcriptParts
    chunkI,             \* the chunk loop's variable i
    transcript,         \* transcribeFile's transcript
    segmentTime,        \* the -segment_time handed to ffmpeg (-1: none)
    txtFiles,           \* output path -> content of the .txt file
    calls,              \* history: external calls of the current job, in order
    preExisted,         \* history: the output existed when the job started
    caught              \* history: the error transcribeFile's catch block logged

\* What a run never changes; transcribeFile's locals; the history.
tenv == <<apiKeySet, filesToTranscribe, sources>>
tlocals == <<tempDir, metadata, chunkPaths, transcriptParts, chunkI, transcript,
             segmentTime>>
thist == <<calls, preExisted, caught>>
tvars == <<tenv, tpc, fileIdx, tlocals, tmpOnDisk, chunksOnDisk, txtFiles, thist>>

\* index.js
VARIABLES
    videoFiles,         \* result of getVideoFiles
    config,             \* TRANSCRIPTION_CONFIG
    ipc,                \* position of the script
    videoIdx,           \* main's loop variable i
    processedCount,     \* main's processedCount
    skippedCount,       \* main's skippedCount
    audioFiles,         \* audio path -> content of the .mp3 file
    textFiles,          \* text path -> content of the .txt file
    probed,             \* transcribeAudioFile's { duration, size }
    audioTranscript,    \* transcribeAudioFile's transcript
    formData,           \* transcribeWithElevenLabs' formData, as appended
    icalls,             \* history: external calls of the current job, in order
    icaught,            \* history: the function whose catch block logged
    fullyProcessed,     \* history: processVideoFile logged "fully processed"
    userChoice,         \* history: the menu answer for the current file
    failedJobs,         \* history: number of finished jobs that logged an error
    textAtStart         \* history: textFiles when the run started

ienv == <<videoFiles, config, textAtStart>>
ilocals == <<probed, audioTranscript, formData>>
ihist == <<icalls, icaught, fullyProcessed, userChoice>>
ivars == <<ienv, ipc, videoIdx, processedCount, skippedCount, audioFiles,
           textFiles, ilocals, ihist, failedJobs>>

\* splitAudioFile's plan, called on its own
VARIABLES
    ppc,                \* position of the caller
    planInput,          \* the arguments duration, fileSize, targetChunkSizeBytes
    plan,               \* numChunks and chunkDuration of the first call
    planAgain           \* numChunks and chunkDuration of the second call

pvars == <<ppc, planInput, plan, planAgain>>

\* the role-labelling script
VARIABLES
    filesToProcess,     \* the list of transcript paths
    rpc,                \* position of the script
    rfileIdx,           \* main's loop variable i
    transcriptText,     \* processTranscriptFile's transcriptText, as characters
    breakPoint,         \* processTranscriptFile's breakPoint
    chunk1,             \* processTranscriptFile's chunk1
    chunk2,             \* processTranscriptFile's chunk2
    processedChunks,    \* processTranscriptFile's processedChunks
    rolesFiles,         \* output path -> content of the _roles.txt file
    rcalls,             \* history: external calls of the current job, in order
    rcaught,            \* history: processTranscriptFile's catch block logged
    elapsed             \* history: ms since the last completion call or job ended

rlocals == <<transcriptText, breakPoint, chunk1, chunk2, processedChunks>>
rvars == <<filesToProcess, rpc, rfileIdx, rlocals, rolesFiles, rcalls, rcaught,
           elapsed>>

\* every script
VARIABLES
    inFlight,           \* the external operations started and not yet settled
    exitStatus          \* the exit status of the node process (-1: it runs)

vars == <<tvars, ivars, pvars, rvars, inFlight, exitStatus>>

\* A size as <<whole GiB, remaining bytes>>; a duration in milliseconds.
NoProbe == [duration |-> 0, size |-> <<0, 0>>]

\* The process has not ended.
Running == -1
\* No completion call and no job has ended yet.
NoEvent == -1
\* No ffmpeg run was set up.
NoSegmentTime == -1
NoPlan == [numChunks |-> 0, chunkDuration |-> 0]
PlannerOff ==
    /\ ppc = "off"
    /\ planInput = [duration |-> 0, fileSize |-> 0, targetChunkSizeBytes |-> 0]
    /\ plan = NoPlan
    /\ planAgain = NoPlan

RolesOff ==
    /\ filesToProcess = << >>
    /\ rpc = "off"
    /\ rfileIdx = 0
    /\ transcriptText = << >>
    /\ breakPoint = 0
    /\ chunk1 = << >>
    /\ chunk2 = << >>
    /\ processedChunks = << >>
    /\ rolesFiles = << >>
    /\ rcalls = << >>
    /\ rcaught = FALSE
    /\ elapsed = NoEvent

\* ------------------------------------------ index.js, the upload form
\* A configured value: null, or a string, number or boolean as its text.
Null == [type |-> "null", text |-> "null"]
Text(s) == [type |-> "string", text |-> s]
Number(s) == [type |-> "number", text |-> s]
Boolean(s) == [type |-> "boolean", text |-> s]
\* String(value)
String(v) == Text(v.text)

\* const LANGUAGE_CODE = CLI_ARGS.lang || "en", without a --lang argument.
LANGUAGE_CODE == Text("en")
TRANSCRIPTION_CONFIG ==
    [ model_id |-> Text("scribe_v1"),
      language_code |-> LANGUAGE_CODE,
      diarize |-> Boolean("true"),
      num_speakers |-> Null,
      diarization_threshold |-> Null,
      tag_audio_events |-> Boolean("true"),
      timestamps_granularity |-> Text("word"),
      temperature |-> Null,
      seed |-> Null,
      use_multi_channel |-> Boolean("false"),
      file_format |-> Text("other"),
      enable_logging |-> Boolean("true"),
      webhook |-> Boolean("false"),
      webhook_id |-> Null ]

\* fs.createReadStream(filePath) as a form value.
ReadStream == [type |-> "stream", text |-> "file"]
\* formData.append(name, value)
FormAppend(form, name, value) == Append(form, [name |-> name, value |-> value])
\* Mutant of IsSet: null is attached like any value.
IsSet_always(v) == TRUE
\* value !== null
IsSet(v) == v # Null
\* if (value !== null) formData.append(name, value)
AppendIfSet(form, name, raw, value) ==
    IF IsSet(raw) THEN FormAppend(form, name, value) ELSE form

\* transcribeWithElevenLabs: the form built from the file and the
\* configuration c, append by append.
Form(c) ==
    LET f0 == FormAppend(<< >>, "file", ReadStream)
        f1 == FormAppend(f0, "model_id", c.model_id)
        f2 == AppendIfSet(f1, "language_code", c.language_code, c.language_code)
        f3 == FormAppend(f2, "diarize", String(c.diarize))
        f4 == AppendIfSet(f3, "num_speakers", c.num_speakers, String(c.num_speakers))
        f5 == AppendIfSet(f4, "diarization_threshold", c.diarization_threshold,
                          String(c.diarization_threshold))
        f6 == FormAppend(f5, "tag_audio_events", String(c.tag_audio_events))
        f7 == FormAppend(f6, "timestamps_granularity", c.timestamps_granularity)
        f8 == AppendIfSet(f7, "temperature", c.temperature, String(c.temperature))
        f9 == AppendIfSet(f8, "seed", c.seed, String(c.seed))
        f10 == FormAppend(f9, "use_multi_channel", String(c.use_multi_channel))
        f11 == FormAppend(f10, "file_format", c.file_format)
        f12 == FormAppend(f11, "enable_logging", String(c.enable_logging))
        f13 == FormAppend(f12, "webhook", String(c.webhook))
    IN  AppendIfSet(f13, "webhook_id", c.webhook_id, c.webhook_id)

\* The state of a script that is not run.
TranscribeOff ==
    /\ apiKeySet = FALSE
    /\ filesToTranscribe = << >>
    /\ sources = << >>
    /\ tpc = "off"
    /\ fileIdx = 0
    /\ tempDir = << >>
    /\ tmpOnDisk = {}
    /\ chunksOnDisk = {}
    /\ metadata = [duration |-> 0, size |-> 0]
    /\ chunkPaths = << >>
    /\ transcriptParts = << >>
    /\ chunkI = 0
    /\ transcript = Str(<< >>)
    /\ segmentTime = NoSegmentTime
    /\ inFlight = {}
    /\ exitStatus = Running
    /\ txtFiles = << >>
    /\ calls = << >>
    /\ preExisted = FALSE
    /\ caught = "none"
IndexOff ==
    /\ videoFiles = << >>
    /\ config = TRANSCRIPTION_CONFIG
    /\ textAtStart = << >>
    /\ ipc = "off"
    /\ videoIdx = 0
    /\ processedCount = 0
    /\ skippedCount = 0
    /\ audioFiles = << >>
    /\ textFiles = << >>
    /\ probed = NoProbe
    /\ audioTranscript = Str(<< >>)
    /\ formData = << >>
    /\ icalls = << >>
    /\ icaught = "none"
    /\ fullyProcessed = FALSE
    /\ userChoice = "none"
    /\ failedJobs = 0

\* The k-th source file, and its neighbours on disk.
SrcDir == <<"src">>
SrcPath(k) == Path(SrcDir, <<"file", k>>)
\* mkdtempSync gives every job a fresh directory; null is no directory.
NoDir == << >>
TmpDirOf(i) == <<"whisper-chunks", i>>
\* A directory as the argument of a recorded call.
DirPath(d) == Path(d, << >>)
\* chunk_%03d<ext> in directory d.
ChunkPath(d, c) == Path(d, <<"chunk", c>>)
\* path.join(path.dirname(filePath), basename without extension + ".txt")
OutputPath(p) == Path(p.dir, <<"txt", p.name[2]>>)

NoMetadata == [duration |-> 0, size |-> 0]

\* Sizes (bytes) and durations (seconds) of the source files: at the upload
\* limit, just over it (a plan of two chunks), and a plan of three chunks.
ProbedSizes == {MAX_FILE_SIZE, MAX_FILE_SIZE + 1, 2 * TARGET_CHUNK_SIZE_BYTES + 1}
ProbedDurations == {1, 7}
\* The files of a batch run: at the limit or just over it.
BatchSizes == {MAX_FILE_SIZE, MAX_FILE_SIZE + 1}
BatchDurations == {7}

\* What one axios.post to the transcription endpoint can end with.
Responses == {"text", "notext", "http", "network"}
FailedResponses == {"http", "network"}

Call(op, arg, res) == [op |-> op, arg |-> arg, res |-> res]
CallsOf(op) == SelectSeq(calls, LAMBDA c : c.op = op)

\* Mutant of Ceil: one more than the integer quotient.
Ceil_quotientPlusOne(a, b) == (a \div b) + 1
\* Math.ceil(a / b) for positive integers.
Ceil(a, b) == (a + b - 1) \div b

\* Array.prototype.join("\n\n"): undefined elements are rendered empty.
RECURSIVE JoinTokens(_)
JoinTokens(parts) ==
    IF parts = << >> THEN << >>
    ELSE LET head == IF Head(parts).t = "string" THEN Head(parts).s ELSE << >>
         IN  IF Len(parts) = 1 THEN head
             ELSE head \o <<Sep>> \o JoinTokens(Tail(parts))
Join(parts) == Str(JoinTokens(parts))

\* The error marker transcribeChunk returns: it names the chunk's base name.
ChunkMarker(p) ==
    Str(<<[kind |-> "marker", src |-> << >>, name |-> Basename(p)]>>)

\* Mutant of transcribeChunk: a failed upload yields the empty string.
transcribeChunk_emptyOnError(p, response) ==
    CASE response = "text" -> Str(<<TextOf(p)>>)
      [] response = "notext" -> Undefined
      [] OTHER -> Str(<< >>)

\* transcribeChunk(filePath): the value the promise resolves with, given the
\* outcome of the upload.  It never rejects: every error of axios.post is
\* caught and turned into the marker.
transcribeChunk(p, response) ==
    CASE response = "text" -> Str(<<TextOf(p)>>)
      [] response = "notext" -> Undefined
      [] OTHER -> ChunkMarker(p)

\* Mutant of PushPart: the part is put in front.
PushPart_unshift(parts, part) == <<part>> \o parts
\* transcriptParts.push(part)
PushPart(parts, part) == Append(parts, part)

\* Mutant of CleanupNeeded: the cleanup sits at the end of the try block.
CleanupNeeded_onlyOnSuccess == tempDir # NoDir /\ caught = "none"
\* The finally block's if (tempDir).
CleanupNeeded == tempDir # NoDir

\* Mutant of Oversized: a file exactly at the limit is split as well.
Oversized_atLimit(size) == size >= MAX_FILE_SIZE
\* transcribeFile's size check: size > MAX_FILE_SIZE.
Oversized(size) == size > MAX_FILE_SIZE

\* Mutant of CleanupFailed: the error of rmSync leaves transcribeFile and
\* main.
CleanupFailed_uncaught == "exit"
\* The catch block around rmSync: log; transcribeFile returns.
CleanupFailed == "returned"

\* splitAudioFile's plan: numChunks = Math.ceil(fileSize / targetChunkSizeBytes),
\* chunkDuration = Math.floor(duration / numChunks).
Plan(duration, fileSize, targetChunkSizeBytes) ==
    LET numChunks == Ceil(fileSize, targetChunkSizeBytes)
    IN  [numChunks |-> numChunks, chunkDuration |-> duration \div numChunks]
\* The plan transcribeFile asks for: the target is TARGET_CHUNK_SIZE_BYTES.
NumChunks(size) == Plan(0, size, TARGET_CHUNK_SIZE_BYTES).numChunks
ChunkDuration(duration, size) ==
    Plan(duration, size, TARGET_CHUNK_SIZE_BYTES).chunkDuration

\* Mutant of CollectChunks: the loop ends at the first chunk that is missing.
RECURSIVE CollectChunks_untilMissing(_, _, _, _)
CollectChunks_untilMissing(d, i, numChunks, onDisk) ==
    IF i >= numChunks \/ i \notin onDisk THEN << >>
    ELSE <<ChunkPath(d, i)>> \o CollectChunks_untilMissing(d, i + 1, numChunks, onDisk)
\* Mutant of CollectChunks: every chunk file in the directory is collected.
RECURSIVE CollectChunks_all(_, _, _, _)
CollectChunks_all(d, i, numChunks, onDisk) ==
    IF \A j \in onDisk : j < i THEN << >>
    ELSE (IF i \in onDisk THEN <<ChunkPath(d, i)>> ELSE << >>)
         \o CollectChunks_all(d, i + 1, numChunks, onDisk)
\* splitAudioFile's "end" handler: the expected chunk files that exist.
RECURSIVE CollectChunks(_, _, _, _)
CollectChunks(d, i, numChunks, onDisk) ==
    IF i >= numChunks THEN << >>
    ELSE (IF i \in onDisk THEN <<ChunkPath(d, i)>> ELSE << >>)
         \o CollectChunks(d, i + 1, numChunks, onDisk)

\* An asynchronous operation on a path, from its start until its promise
\* settles.
Op(op, arg) == [op |-> op, arg |-> arg]
\* await: the awaited operation has settled; the code that runs up to the
\* next await has started the operations in started.
Await(flight, settled, started) == (flight \ {settled}) \cup started
\* Mutant of FirstUpload: the uploads of all chunks are started together.
FirstUpload_fanOut(paths) == {Op("upload", paths[k]) : k \in 1..Len(paths)}
\* The chunk loop starts with the upload of chunkPaths[0].
FirstUpload(paths) == {Op("upload", paths[1])}

\* Mutant of NextChunk: a chunk whose upload failed is uploaded again.
NextChunk_retryFailed(i, response) ==
    IF response \in FailedResponses THEN i ELSE i + 1
\* The chunk loop's i++: the next chunk, whatever the upload ended with.
NextChunk(i, response) == i + 1

\* The state at the start of main, for n files of the given sizes.
InitFiles(n, sizes, durations) ==
    /\ apiKeySet \in BOOLEAN
    /\ filesToTranscribe = [k \in 1..n |-> SrcPath(k)]
    /\ sources \in [{SrcPath(k) : k \in 1..n} ->
                      [duration : durations, size : sizes]]
    /\ tpc = "main"
    /\ fileIdx = 0
    /\ tempDir = NoDir
    /\ tmpOnDisk = {}
    /\ chunksOnDisk = {}
    /\ metadata = NoMetadata
    /\ chunkPaths = << >>
    /\ transcriptParts = << >>
    /\ chunkI = 0
    /\ transcript = Str(<< >>)
    /\ segmentTime = NoSegmentTime
    /\ inFlight = {}
    /\ exitStatus = Running
    /\ txtFiles \in [{OutputPath(SrcPath(k)) : k \in 1..n} -> {NoFile, OldText}]
    /\ calls = << >>
    /\ preExisted = FALSE
    /\ caught = "none"

\* The script as committed: filesToTranscribe holds one file.
TranscribeInit ==
    InitFiles(1, ProbedSizes, ProbedDurations) /\ IndexOff /\ PlannerOff /\ RolesOff
\* A list of up to MaxFiles files.
TranscribeBatchInit ==
    /\ \E n \in 0..MaxFiles : InitFiles(n, BatchSizes, BatchDurations)
    /\ IndexOff
    /\ PlannerOff
    /\ RolesOff

totalFiles == Len(filesToTranscribe)
\* filesToTranscribe[i] with main's 0-based i.
filePath == filesToTranscribe[fileIdx + 1]

\* main, up to the loop: without an API key nothing is processed.
legacyMain_start ==
    /\ tpc = "main"
    /\ tpc' = IF apiKeySet THEN "loop" ELSE "exit"
    /\ UNCHANGED <<tenv, fileIdx, tlocals, tmpOnDisk, chunksOnDisk, txtFiles, thist,
                   inFlight>>
    /\ UNCHANGED <<ivars, pvars, rvars>>
    /\ UNCHANGED exitStatus

\* main's for loop: call transcribeFile(filesToTranscribe[i]), or finish.
legacyMain_loop ==
    /\ tpc = "loop"
    /\ IF fileIdx < totalFiles
       THEN /\ tpc' = "exists"
            /\ preExisted' = (txtFiles[OutputPath(filePath)] # NoFile)
       ELSE /\ tpc' = "exit"
            /\ UNCHANGED preExisted
    /\ UNCHANGED <<tenv, fileIdx, tlocals, tmpOnDisk, chunksOnDisk, txtFiles,
                   calls, caught, inFlight>>
    /\ UNCHANGED <<ivars, pvars, rvars>>
    /\ UNCHANGED exitStatus

\* transcribeFile: fs.existsSync(filePath); a missing file is skipped (the
\* return inside try still runs the finally block).
transcribeFile_exists ==
    /\ tpc = "exists"
    /\ \E found \in {"yes", "no"} :
        /\ calls' = Append(calls, Call("exists", filePath, found))
        /\ tpc' = IF found = "yes" THEN "probe" ELSE "finally"
        /\ inFlight' = IF found = "yes"
                       THEN inFlight \cup {Op("probe", filePath)}
                       ELSE inFlight
    /\ UNCHANGED <<tenv, fileIdx, tlocals, tmpOnDisk, chunksOnDisk, txtFiles,
                   preExisted, caught>>
    /\ UNCHANGED <<ivars, pvars, rvars>>
    /\ UNCHANGED exitStatus

\* getAudioMetadata rejects: ffprobe fails or omits duration or size.
transcribeFile_probeFails ==
    /\ tpc = "probe"
    /\ calls' = Append(calls, Call("probe", filePath, "error"))
    /\ caught' = "probe"
    /\ tpc' = "finally"
    /\ inFlight' = Await(inFlight, Op("probe", filePath), {})
    /\ UNCHANGED <<tenv, fileIdx, tlocals, tmpOnDisk, chunksOnDisk, txtFiles,
                   preExisted>>
    /\ UNCHANGED <<ivars, pvars, rvars>>
    /\ UNCHANGED exitStatus

\* getAudioMetadata resolves; the size check picks the branch.  On the
\* oversized branch mkdtempSync creates the temp directory (or throws) and
\* splitAudioFile starts ffmpeg.
transcribeFile_probe ==
    /\ tpc = "probe"
    /\ metadata' = sources[filePath]
    /\ IF Oversized(sources[filePath].size)
       THEN \E made \in BOOLEAN :
               IF made
               THEN /\ tempDir' = TmpDirOf(fileIdx)
                    /\ tmpOnDisk' = tmpOnDisk \cup {TmpDirOf(fileIdx)}
                    /\ segmentTime' = ChunkDuration(sources[filePath].duration,
                                                    sources[filePath].size)
                    /\ inFlight' = Await(inFlight, Op("probe", filePath),
                                         {Op("split", filePath)})
                    /\ calls' = calls \o
                           <<Call("probe", filePath, "ok"),
                             Call("mkdtemp", DirPath(TmpDirOf(fileIdx)), "ok")>>
                    /\ tpc' = "split"
                    /\ UNCHANGED caught
               ELSE /\ calls' = calls \o
                           <<Call("probe", filePath, "ok"),
                             Call("mkdtemp", DirPath(TmpDirOf(fileIdx)), "error")>>
                    /\ caught' = "mkdtemp"
                    /\ tpc' = "finally"
                    /\ inFlight' = Await(inFlight, Op("probe", filePath), {})
                    /\ UNCHANGED <<tempDir, tmpOnDisk, segmentTime>>
       ELSE /\ calls' = Append(calls, Call("probe", filePath, "ok"))
            /\ tpc' = "direct"
            /\ inFlight' = Await(inFlight, Op("probe", filePath),
                                 {Op("upload", filePath)})
            /\ UNCHANGED <<tempDir, tmpOnDisk, caught, segmentTime>>
    /\ UNCHANGED <<tenv, fileIdx, chunkPaths, transcriptParts, chunkI,
                   transcript, chunksOnDisk, txtFiles, preExisted>>
    /\ UNCHANGED <<ivars, pvars, rvars>>
    /\ UNCHANGED exitStatus

\* splitAudioFile: ffmpeg, run with segment_time = chunkDuration, ends with
\* "error" or with "end" after writing some segment files (fs.existsSync
\* finds any of them or not); the "end" handler collects the expected ones
\* that exist and rejects when there is none.
transcribeFile_split ==
    /\ tpc = "split"
    /\ \E ended \in BOOLEAN, written \in SUBSET (0..(MaxSegments - 1)) :
        LET found == CollectChunks(tempDir, 0, NumChunks(metadata.size), written)
        IN /\ chunksOnDisk' = written
           /\ IF ended /\ found # << >>
              THEN /\ chunkPaths' = found
                   /\ calls' = Append(calls, Call("split", filePath, "ok"))
                   /\ tpc' = "chunk"
                   /\ inFlight' = Await(inFlight, Op("split", filePath),
                                        FirstUpload(found))
                   /\ UNCHANGED caught
              ELSE /\ calls' = Append(calls, Call("split", filePath,
                                      IF ended THEN "nochunks" ELSE "error"))
                   /\ caught' = "split"
                   /\ tpc' = "finally"
                   /\ inFlight' = Await(inFlight, Op("split", filePath), {})
                   /\ UNCHANGED chunkPaths
    /\ UNCHANGED <<tenv, fileIdx, tempDir, metadata, transcriptParts, chunkI,
                   transcript, segmentTime, tmpOnDisk, txtFiles, preExisted>>
    /\ UNCHANGED <<ivars, pvars, rvars>>
    /\ UNCHANGED exitStatus

\* One round of the chunk loop: upload chunkPaths[i] and push the part.
\* After the last chunk the parts are joined.
transcribeFile_chunk ==
    /\ tpc = "chunk"
    /\ \E response \in Responses :
        LET chunkPath == chunkPaths[chunkI + 1]
            parts == PushPart(transcriptParts, transcribeChunk(chunkPath, response))
            next == NextChunk(chunkI, response)
        IN /\ calls' = Append(calls, Call("upload", chunkPath, response))
           /\ transcriptParts' = parts
           /\ chunkI' = next
           /\ IF next < Len(chunkPaths)
              THEN /\ tpc' = "chunk"
                   /\ inFlight' = Await(inFlight, Op("upload", chunkPath),
                                        {Op("upload", chunkPaths[next + 1])})
                   /\ UNCHANGED transcript
              ELSE /\ tpc' = "write"
                   /\ inFlight' = Await(inFlight, Op("upload", chunkPath), {})
                   /\ transcript' = Join(parts)
    /\ UNCHANGED <<tenv, fileIdx, tempDir, metadata, chunkPaths, segmentTime,
                   tmpOnDisk, chunksOnDisk, txtFiles, preExisted, caught>>
    /\ UNCHANGED <<ivars, pvars, rvars>>
    /\ UNCHANGED exitStatus

\* The file is within the limit: one upload of the whole file.
transcribeFile_direct ==
    /\ tpc = "direct"
    /\ \E response \in Responses :
        /\ calls' = Append(calls, Call("upload", filePath, response))
        /\ transcript' = transcribeChunk(filePath, response)
    /\ tpc' = "write"
    /\ inFlight' = Await(inFlight, Op("upload", filePath), {})
    /\ UNCHANGED <<tenv, fileIdx, tempDir, metadata, chunkPaths,
                   transcriptParts, chunkI, segmentTime, tmpOnDisk, chunksOnDisk,
                   txtFiles, preExisted, caught>>
    /\ UNCHANGED <<ivars, pvars, rvars>>
    /\ UNCHANGED exitStatus

\* fs.writeFileSync(outputPath, transcript): throws for data that is not a
\* string (before the file is opened), or when the disk refuses.
transcribeFile_write ==
    /\ tpc = "write"
    /\ \E disk \in {"ok", "error"} :
        IF disk = "ok" /\ transcript.t = "string"
        THEN /\ txtFiles' = [txtFiles EXCEPT ![OutputPath(filePath)] = transcript]
             /\ calls' = Append(calls, Call("write", OutputPath(filePath), "ok"))
             /\ UNCHANGED caught
        ELSE /\ calls' = Append(calls, Call("write", OutputPath(filePath), "error"))
             /\ caught' = "write"
             /\ UNCHANGED txtFiles
    /\ tpc' = "finally"
    /\ UNCHANGED <<tenv, fileIdx, tlocals, tmpOnDisk, chunksOnDisk, preExisted,
                   inFlight>>
    /\ UNCHANGED <<ivars, pvars, rvars>>
    /\ UNCHANGED exitStatus

\* The finally block: remove the temp directory if one was created; a
\* failure of rmSync is logged only.  transcribeFile then returns.
transcribeFile_finally ==
    /\ tpc = "finally"
    /\ IF CleanupNeeded
       THEN \E rm \in {"ok", "error"} :
               /\ calls' = Append(calls, Call("rm", DirPath(tempDir), rm))
               /\ tmpOnDisk' = IF rm = "ok" THEN tmpOnDisk \ {tempDir}
                                            ELSE tmpOnDisk
               /\ tpc' = IF rm = "ok" THEN "returned" ELSE CleanupFailed
       ELSE /\ tpc' = "returned"
            /\ UNCHANGED <<calls, tmpOnDisk>>
    /\ UNCHANGED <<tenv, fileIdx, tlocals, chunksOnDisk, txtFiles, preExisted,
                   caught, inFlight>>
    /\ UNCHANGED <<ivars, pvars, rvars>>
    /\ UNCHANGED exitStatus

\* Back in main: i++.  transcribeFile's locals are gone.
legacyMain_next ==
    /\ tpc = "returned"
    /\ fileIdx' = fileIdx + 1
    /\ tpc' = "loop"
    /\ tempDir' = NoDir
    /\ metadata' = NoMetadata
    /\ chunkPaths' = << >>
    /\ transcriptParts' = << >>
    /\ chunkI' = 0
    /\ transcript' = Str(<< >>)
    /\ segmentTime' = NoSegmentTime
    /\ chunksOnDisk' = {}
    /\ calls' = << >>
    /\ preExisted' = FALSE
    /\ caught' = "none"
    /\ UNCHANGED <<tenv, tmpOnDisk, txtFiles, inFlight>>
    /\ UNCHANGED <<ivars, pvars, rvars>>
    /\ UNCHANGED exitStatus



\* Nothing is pending any more: node ends with process.exitCode, which no
\* script sets, so with 0; an unhandled rejection would end it with 1.
ExitCode(unhandledRejection) == IF unhandledRejection THEN 1 ELSE 0
processExit ==
    /\ ipc = "exit" \/ tpc = "exit" \/ rpc = "exit"
    /\ exitStatus = Running
    /\ exitStatus' = ExitCode(FALSE)
    /\ UNCHANGED <<tvars, ivars, pvars, rvars, inFlight>>

TranscribeNext ==
    \/ processExit
    \/ legacyMain_start
    \/ legacyMain_loop
    \/ transcribeFile_exists
    \/ transcribeFile_probeFails
    \/ transcribeFile_probe
    \/ transcribeFile_split
    \/ transcribeFile_chunk
    \/ transcribeFile_direct
    \/ transcribeFile_write
    \/ transcribeFile_finally
    \/ legacyMain_next

\* One run of the script as committed, and a run over a longer list.
SpecTranscribe == TranscribeInit /\ [][TranscribeNext]_vars
SpecTranscribeBatch == TranscribeBatchInit /\ [][TranscribeNext]_vars

\* ------------------------------------------------ splitAudioFile's plan
\* splitAudioFile called with any positive duration, file size and target.
PlannerInit ==
    /\ ppc = "call"
    /\ planInput \in [duration : 1..MaxDuration, fileSize : 1..MaxFileSize,
                       targetChunkSizeBytes : 1..MaxTarget]
    /\ plan = NoPlan
    /\ planAgain = NoPlan
    /\ TranscribeOff
    /\ IndexOff
    /\ RolesOff

\* The first call computes numChunks and chunkDuration from its arguments.
splitAudioFile_plan ==
    /\ ppc = "call"
    /\ plan' = Plan(planInput.duration, planInput.fileSize,
                    planInput.targetChunkSizeBytes)
    /\ ppc' = "planned"
    /\ UNCHANGED <<planInput, planAgain, tvars, ivars, rvars>>
    /\ UNCHANGED inFlight
    /\ UNCHANGED exitStatus

\* A second call with the same arguments.
splitAudioFile_planAgain ==
    /\ ppc = "planned"
    /\ planAgain' = Plan(planInput.duration, planInput.fileSize,
                         planInput.targetChunkSizeBytes)
    /\ ppc' = "replanned"
    /\ UNCHANGED <<planInput, plan, tvars, ivars, rvars>>
    /\ UNCHANGED inFlight
    /\ UNCHANGED exitStatus

PlannerNext == splitAudioFile_plan \/ splitAudioFile_planAgain

SpecPlanner == PlannerInit /\ [][PlannerNext]_vars

\* ================================================================= index.js

MAX_FILE_SIZE_GB == 3
MAX_DURATION_HOURS == 10

VIDEO_DIR == <<"video">>
AUDIO_DIR == <<"audio">>
TEXT_DIR == <<"text">>

\* The k-th entry of the video directory: two extensions per base name.
VideoFile(k) ==
    Path(VIDEO_DIR, <<"v", (k + 1) \div 2, IF k % 2 = 1 THEN "mov" ELSE "mp4">>)
\* Mutant of VideoName: the extension stays in the name.
VideoName_withExtension(p) == p.name
\* path.basename(videoPath, path.extname(videoPath))
VideoName(p) == <<p.name[1], p.name[2]>>
\* path.join(AUDIO_DIR, videoName + ".mp3"), path.join(TEXT_DIR, videoName + ".txt")
AudioPath(p) == Path(AUDIO_DIR, VideoName(p) \o <<"mp3">>)
TextPath(p) == Path(TEXT_DIR, VideoName(p) \o <<"txt">>)

\* The elements of a set of numbers in ascending order (readdirSync order).
RECURSIVE Ascending(_)
Ascending(S) ==
    IF S = {} THEN << >>
    ELSE LET m == CHOOSE x \in S : \A y \in S : x <= y
         IN  <<m>> \o Ascending(S \ {m})

\* Contents of an .mp3 file: left by an earlier run, extracted from video p,
\* or what a failed ffmpeg run left behind.
OldAudio == Str(<<[kind |-> "old", src |-> << >>, name |-> << >>]>>)
AudioOf(p) == Str(<<[kind |-> "audio", src |-> p.dir, name |-> p.name]>>)
PartialAudioOf(p) == Str(<<[kind |-> "partial", src |-> p.dir, name |-> p.name]>>)

\* What ffprobe may report: at both limits, one byte over the size limit,
\* one millisecond over the duration limit, and the 4 GB file of the spec.
GiB(n, rest) == <<n, rest>>
Hours(h) == h * 3600 * 1000
IndexProbes ==
    { [size |-> GiB(MAX_FILE_SIZE_GB, 0), duration |-> Hours(MAX_DURATION_HOURS)],
      [size |-> GiB(MAX_FILE_SIZE_GB, 1), duration |-> Hours(MAX_DURATION_HOURS)],
      [size |-> GiB(MAX_FILE_SIZE_GB, 0), duration |-> Hours(MAX_DURATION_HOURS) + 1],
      [size |-> GiB(MAX_FILE_SIZE_GB + 1, 0), duration |-> Hours(1)] }

\* Mutant of ExceedsSizeLimit: the comparison is >=.
ExceedsSizeLimit_atLimit(m) == m.size[1] >= MAX_FILE_SIZE_GB
\* sizeGB > MAX_FILE_SIZE_GB, with sizeGB = size / (1024 * 1024 * 1024).
ExceedsSizeLimit(m) ==
    \/ m.size[1] > MAX_FILE_SIZE_GB
    \/ m.size[1] = MAX_FILE_SIZE_GB /\ m.size[2] > 0
\* durationHours > MAX_DURATION_HOURS, with durationHours = duration / 3600.
ExceedsDurationLimit(m) == m.duration > Hours(MAX_DURATION_HOURS)

\* Mutant of transcribeWithElevenLabs: an error becomes a marker text, as
\* transcribeChunk does.
transcribeWithElevenLabs_marker(p, response) ==
    CASE response = "text" -> [threw |-> FALSE, value |-> Str(<<TextOf(p)>>)]
      [] response = "notext" -> [threw |-> FALSE, value |-> Undefined]
      [] OTHER -> [threw |-> FALSE, value |-> ChunkMarker(p)]
\* transcribeWithElevenLabs(filePath): returns response.data.text, rethrows
\* every error of axios.post after logging it.
transcribeWithElevenLabs(p, response) ==
    CASE response = "text" -> [threw |-> FALSE, value |-> Str(<<TextOf(p)>>)]
      [] response = "notext" -> [threw |-> FALSE, value |-> Undefined]
      [] OTHER -> [threw |-> TRUE, value |-> Undefined]

IndexInit ==
    /\ \E S \in SUBSET (1..(MaxVideos + 1)) :
          /\ Cardinality(S) <= MaxVideos
          /\ videoFiles = [k \in 1..Cardinality(S) |-> VideoFile(Ascending(S)[k])]
    /\ audioFiles \in [{AudioPath(VideoFile(k)) : k \in 1..(MaxVideos + 1)} ->
                         {NoFile, OldAudio}]
    /\ textFiles \in [{TextPath(VideoFile(k)) : k \in 1..(MaxVideos + 1)} ->
                        {NoFile, OldText}]
    /\ textAtStart = textFiles
    /\ config = TRANSCRIPTION_CONFIG
    /\ ipc = "main"
    /\ videoIdx = 0
    /\ processedCount = 0
    /\ skippedCount = 0
    /\ probed = NoProbe
    /\ audioTranscript = Str(<< >>)
    /\ formData = << >>
    /\ icalls = << >>
    /\ icaught = "none"
    /\ fullyProcessed = FALSE
    /\ userChoice = "none"
    /\ failedJobs = 0
    /\ TranscribeOff
    /\ PlannerOff
    /\ RolesOff

videoFile == videoFiles[videoIdx + 1]
audioPath == AudioPath(videoFile)
textPath == TextPath(videoFile)

\* main up to the loop: the API key check, the mkdirSync calls (which may
\* throw: the error leaves main), getVideoFiles and the empty-list return.
main_start ==
    /\ ipc = "main"
    /\ \E key \in BOOLEAN, dirs \in {"ok", "error"} :
        ipc' = IF ~key THEN "exit"
               ELSE IF dirs = "error" THEN "crashed"
               ELSE IF Len(videoFiles) = 0 THEN "exit"
               ELSE "menu"
    /\ UNCHANGED <<ienv, videoIdx, processedCount, skippedCount, audioFiles,
                   textFiles, ilocals, ihist>>
    /\ UNCHANGED <<failedJobs, tvars, pvars, rvars>>
    /\ UNCHANGED inFlight
    /\ UNCHANGED exitStatus

\* The for loop is over: the summary is printed and main returns.
main_end ==
    /\ ipc = "menu"
    /\ videoIdx >= Len(videoFiles)
    /\ ipc' = "exit"
    /\ UNCHANGED <<ienv, videoIdx, processedCount, skippedCount, audioFiles,
                   textFiles, ilocals, ihist>>
    /\ UNCHANGED <<failedJobs, tvars, pvars, rvars>>
    /\ UNCHANGED inFlight
    /\ UNCHANGED exitStatus

\* Mutant of MenuTarget: the comparison with "exit" never matches.
MenuTarget_exitIgnored(choice) ==
    IF choice = "skip" THEN "menu" ELSE "process"
\* Where main goes on the menu's answer: return, continue the loop, or
\* call processVideoFile.
MenuTarget(choice) ==
    CASE choice = "exit" -> "exit"
      [] choice = "skip" -> "menu"
      [] OTHER -> "process"

\* showFileMenu and main's reaction to the answer.
main_menu ==
    /\ ipc = "menu"
    /\ videoIdx < Len(videoFiles)
    /\ \E choice \in {"continue", "skip", "exit"} :
        /\ userChoice' = choice
        /\ ipc' = MenuTarget(choice)
        /\ IF MenuTarget(choice) = "menu"
           THEN /\ skippedCount' = skippedCount + 1
                /\ videoIdx' = videoIdx + 1
           ELSE UNCHANGED <<videoIdx, skippedCount>>
    /\ UNCHANGED <<ienv, processedCount, audioFiles, textFiles, ilocals,
                   icalls, icaught, fullyProcessed>>
    /\ UNCHANGED <<failedJobs, tvars, pvars, rvars>>
    /\ UNCHANGED inFlight
    /\ UNCHANGED exitStatus

\* Mutant of AlreadyProcessed: the check looks at the .mp3.
AlreadyProcessed_checksAudio == audioFiles[audioPath] # NoFile
\* fs.existsSync(textPath)
AlreadyProcessed == textFiles[textPath] # NoFile

\* Mutant of AudioMissing: the audio is extracted whether it exists or not.
AudioMissing_always == TRUE
\* !fs.existsSync(audioPath)
AudioMissing == audioFiles[audioPath] = NoFile

\* Mutant of ExtractionFailed: processVideoFile has no catch block.
ExtractionFailed_uncaught == [pc |-> "crashed", caught |-> "none"]
\* processVideoFile's catch block: log, return to main.
ExtractionFailed == [pc |-> "after", caught |-> "processVideoFile"]

\* processVideoFile: return when the transcript exists; else extract the
\* audio unless the .mp3 exists.
processVideoFile_check ==
    /\ ipc = "process"
    /\ ipc' = IF AlreadyProcessed THEN "after"
              ELSE IF AudioMissing THEN "extract"
              ELSE "probe"
    /\ UNCHANGED <<ienv, videoIdx, processedCount, skippedCount, audioFiles,
                   textFiles, ilocals, ihist>>
    /\ UNCHANGED <<failedJobs, tvars, pvars, rvars>>
    /\ inFlight' = IF AlreadyProcessed THEN inFlight
                   ELSE IF AudioMissing
                        THEN inFlight \cup {Op("extract", videoFile)}
                        ELSE inFlight \cup {Op("probe", audioPath)}
    /\ UNCHANGED exitStatus

\* extractAudio: ffmpeg ends, or fails (and may leave a partial .mp3); the
\* failure is caught by processVideoFile, which skips the transcription.
processVideoFile_extract ==
    /\ ipc = "extract"
    /\ \E result \in {"ok", "error", "error-partial"} :
        /\ icalls' = Append(icalls, Call("extract", videoFile, result))
        /\ audioFiles' =
              CASE result = "ok" -> [audioFiles EXCEPT ![audioPath] = AudioOf(videoFile)]
                [] result = "error-partial" ->
                      [audioFiles EXCEPT ![audioPath] = PartialAudioOf(videoFile)]
                [] OTHER -> audioFiles
        /\ IF result = "ok"
           THEN ipc' = "probe" /\ UNCHANGED icaught
           ELSE ipc' = ExtractionFailed.pc /\ icaught' = ExtractionFailed.caught
    /\ UNCHANGED <<ienv, videoIdx, processedCount, skippedCount, textFiles,
                   ilocals, fullyProcessed, userChoice>>
    /\ UNCHANGED <<failedJobs, tvars, pvars, rvars>>
    /\ inFlight' = IF ipc' = "probe"
                   THEN Await(inFlight, Op("extract", videoFile), {Op("probe", audioPath)})
                   ELSE Await(inFlight, Op("extract", videoFile), {})
    /\ UNCHANGED exitStatus

\* Mutant of TranscribeFailed: transcribeAudioFile has no catch block and
\* the error ends in processVideoFile's.
TranscribeFailed_rethrown == [caught |-> "processVideoFile", fully |-> FALSE]
\* transcribeAudioFile's catch block: log, return; processVideoFile goes on
\* to log the video as fully processed.
TranscribeFailed == [caught |-> "transcribeAudioFile", fully |-> TRUE]

\* transcribeAudioFile: getAudioMetadata rejects; the catch block logs, the
\* function returns and processVideoFile logs the video as fully processed.
transcribeAudioFile_probeFails ==
    /\ ipc = "probe"
    /\ icalls' = Append(icalls, Call("probe", audioPath, "error"))
    /\ icaught' = TranscribeFailed.caught
    /\ fullyProcessed' = TranscribeFailed.fully
    /\ ipc' = "after"
    /\ UNCHANGED <<ienv, videoIdx, processedCount, skippedCount, audioFiles,
                   textFiles, ilocals, userChoice>>
    /\ UNCHANGED <<failedJobs, tvars, pvars, rvars>>
    /\ inFlight' = Await(inFlight, Op("probe", audioPath), {})
    /\ UNCHANGED exitStatus

\* transcribeAudioFile: getAudioMetadata resolves; the limit checks throw
\* or let the upload start.
transcribeAudioFile_probe ==
    /\ ipc = "probe"
    /\ \E m \in IndexProbes :
        /\ probed' = m
        /\ icalls' = Append(icalls, Call("probe", audioPath, "ok"))
        /\ IF ExceedsSizeLimit(m) \/ ExceedsDurationLimit(m)
           THEN /\ icaught' = TranscribeFailed.caught
                /\ fullyProcessed' = TranscribeFailed.fully
                /\ ipc' = "after"
           ELSE /\ ipc' = "upload"
                /\ UNCHANGED <<icaught, fullyProcessed>>
    /\ UNCHANGED <<ienv, videoIdx, processedCount, skippedCount, audioFiles,
                   textFiles, audioTranscript, formData, userChoice>>
    /\ UNCHANGED <<failedJobs, tvars, pvars, rvars>>
    /\ inFlight' = IF ipc' = "upload"
                   THEN Await(inFlight, Op("probe", audioPath), {Op("upload", audioPath)})
                   ELSE Await(inFlight, Op("probe", audioPath), {})
    /\ UNCHANGED exitStatus

\* transcribeAudioFile: the upload, then fs.writeFileSync(outputPath,
\* transcript), which throws for data that is not a string (before the file
\* is opened) or when the disk refuses.  Every error ends in the catch block.
transcribeAudioFile_upload ==
    /\ ipc = "upload"
    /\ \E response \in Responses, disk \in {"ok", "error"} :
        LET r == transcribeWithElevenLabs(audioPath, response)
            up == Call("upload", audioPath, response)
        IN /\ formData' = Form(config)
           /\ IF r.threw
              THEN /\ disk = "ok"
                   /\ icalls' = Append(icalls, up)
                   /\ icaught' = TranscribeFailed.caught
                   /\ fullyProcessed' = TranscribeFailed.fully
                   /\ UNCHANGED <<audioTranscript, textFiles>>
              ELSE /\ audioTranscript' = r.value
                   /\ IF disk = "ok" /\ r.value.t = "string"
                      THEN /\ textFiles' = [textFiles EXCEPT ![textPath] = r.value]
                           /\ icalls' = icalls \o <<up, Call("write", textPath, "ok")>>
                           /\ fullyProcessed' = TRUE
                           /\ UNCHANGED icaught
                      ELSE /\ icalls' = icalls \o <<up, Call("write", textPath, "error")>>
                           /\ icaught' = TranscribeFailed.caught
                           /\ fullyProcessed' = TranscribeFailed.fully
                           /\ UNCHANGED textFiles
    /\ ipc' = "after"
    /\ UNCHANGED <<ienv, videoIdx, processedCount, skippedCount, audioFiles,
                   probed, userChoice>>
    /\ UNCHANGED <<failedJobs, tvars, pvars, rvars>>
    /\ inFlight' = Await(inFlight, Op("upload", audioPath), {})
    /\ UNCHANGED exitStatus

\* Mutant of CountProcessed: a job that logged an error is not counted.
CountProcessed_unlessFailed(count, failed) == IF failed THEN count ELSE count + 1
\* processedCount++ after processVideoFile returned, whatever it did.
CountProcessed(count, failed) == count + 1

\* Back in main: processedCount++, i++.  The job's locals are gone.
main_next ==
    /\ ipc = "after"
    /\ processedCount' = CountProcessed(processedCount, icaught # "none")
    /\ videoIdx' = videoIdx + 1
    /\ probed' = NoProbe
    /\ audioTranscript' = Str(<< >>)
    /\ formData' = << >>
    /\ icalls' = << >>
    /\ icaught' = "none"
    /\ fullyProcessed' = FALSE
    /\ userChoice' = "none"
    /\ failedJobs' = failedJobs + (IF icaught # "none" THEN 1 ELSE 0)
    /\ ipc' = "menu"
    /\ UNCHANGED <<ienv, skippedCount, audioFiles, textFiles>>
    /\ UNCHANGED <<tvars, pvars, rvars>>
    /\ UNCHANGED inFlight
    /\ UNCHANGED exitStatus

\* main().catch: the error that left main is logged; the handler sets no
\* exit code and does not throw, so the rejection counts as handled.
main_catch ==
    /\ ipc = "crashed"
    /\ icaught' = "main"
    /\ ipc' = "exit"
    /\ UNCHANGED <<ienv, videoIdx, processedCount, skippedCount, audioFiles,
                   textFiles, ilocals, icalls, fullyProcessed, userChoice>>
    /\ UNCHANGED <<failedJobs, tvars, pvars, rvars, inFlight, exitStatus>>

IndexNext ==
    \/ main_catch
    \/ processExit
    \/ main_start
    \/ main_end
    \/ main_menu
    \/ processVideoFile_check
    \/ processVideoFile_extract
    \/ transcribeAudioFile_probeFails
    \/ transcribeAudioFile_probe
    \/ transcribeAudioFile_upload
    \/ main_next

SpecIndex == IndexInit /\ [][IndexNext]_vars

\* ------------------------------------- one job, under any configuration
\* The fields whose value may be null, and a value each of them may have.
Unsettable ==
    {"language_code", "num_speakers", "diarization_threshold", "temperature",
     "seed", "webhook_id"}
SetValue(name) ==
    CASE name = "language_code" -> Text("ru")
      [] name = "num_speakers" -> Number("2")
      [] name = "diarization_threshold" -> Number("0.22")
      [] name = "temperature" -> Number("0")
      [] name = "seed" -> Number("42")
      [] name = "webhook_id" -> Text("hook")
\* TRANSCRIPTION_CONFIG with the fields in set given a value and the other
\* unsettable ones null.
ConfigWith(set) ==
    [name \in DOMAIN TRANSCRIPTION_CONFIG |->
        IF name \in Unsettable
        THEN (IF name \in set THEN SetValue(name) ELSE Null)
        ELSE TRANSCRIPTION_CONFIG[name]]

\* main has called processVideoFile for the only video, whose .mp3 is on
\* disk; the configuration is any.
FormInit ==
    /\ videoFiles = <<VideoFile(1)>>
    /\ \E set \in SUBSET Unsettable : config = ConfigWith(set)
    /\ audioFiles = [q \in {AudioPath(VideoFile(k)) : k \in 1..(MaxVideos + 1)} |->
                        IF q = AudioPath(VideoFile(1)) THEN OldAudio ELSE NoFile]
    /\ textFiles = [q \in {TextPath(VideoFile(k)) : k \in 1..(MaxVideos + 1)} |-> NoFile]
    /\ textAtStart = textFiles
    /\ ipc = "process"
    /\ videoIdx = 0
    /\ processedCount = 0
    /\ skippedCount = 0
    /\ probed = NoProbe
    /\ audioTranscript = Str(<< >>)
    /\ formData = << >>
    /\ icalls = << >>
    /\ icaught = "none"
    /\ fullyProcessed = FALSE
    /\ userChoice = "continue"
    /\ failedJobs = 0
    /\ TranscribeOff
    /\ PlannerOff
    /\ RolesOff

FormNext ==
    \/ processVideoFile_check
    \/ transcribeAudioFile_probeFails
    \/ transcribeAudioFile_probe
    \/ transcribeAudioFile_upload

SpecForm == FormInit /\ [][FormNext]_vars

\* A run of either batch script.
SpecEither ==
    (IndexInit \/ TranscribeBatchInit) /\ [][IndexNext \/ TranscribeNext]_vars

\* ================================================ the role-labelling script

DELAY_BETWEEN_REQUESTS_MS == 5000

\* How long an awaited file or network operation may take: no time at all,
\* or half the delay.
Tick == {0, DELAY_BETWEEN_REQUESTS_MS \div 2}
\* The time since the last event after dt more milliseconds, be it an
\* awaited operation or the setTimeout of delay(dt); what is beyond the
\* delay is not told apart.
Later(e, dt) ==
    IF e = NoEvent THEN NoEvent
    ELSE IF e + dt > DELAY_BETWEEN_REQUESTS_MS THEN DELAY_BETWEEN_REQUESTS_MS
    ELSE e + dt

\* Mutant of PauseNeeded: main does not pause between files.
PauseNeeded_never(i, total) == FALSE
\* main's if (i < totalFiles - 1).
PauseNeeded(i, total) == i < total - 1

\* The characters of a transcript: a letter, a newline, a full stop, a space.
Letter == "a"
Newline == "nl"
Stop == "."
Space == " "

\* A text of len characters with double-newlines starting at the (0-based)
\* indexes in nns and ". " starting at the indexes in dots; letters elsewhere.
MakeText(len, nns, dots) ==
    [i \in 1..len |->
        IF (i - 1) \in nns \/ (i - 2) \in nns THEN Newline
        ELSE IF (i - 1) \in dots THEN Stop
        ELSE IF (i - 2) \in dots THEN Space
        ELSE Letter]

\* The texts of length len with at most two double-newlines and one ". ".
TextsOfLength(len) ==
    {MakeText(len, {a, b} \ {-1}, {d} \ {-1}) :
        a \in (-1)..(len - 2), b \in (-1)..(len - 2), d \in (-1)..(len - 2)}

\* String.prototype.lastIndexOf(c1 c2, position): the greatest 0-based index
\* not above position at which the two characters start, or -1.
LastIndexOf(text, c1, c2, position) ==
    LET found == {i \in 0..(Len(text) - 2) :
                    i <= position /\ text[i + 1] = c1 /\ text[i + 2] = c2}
    IN  IF found = {} THEN -1
        ELSE CHOOSE i \in found : \A j \in found : j <= i

\* Mutant of SubstringFrom: the second half starts one character late.
SubstringFrom_oneLate(text, from) == SubSeq(text, from + 2, Len(text))
\* String.prototype.substring(from, to) and substring(from).
Substring(text, from, to) == SubSeq(text, from + 1, to)
SubstringFrom(text, from) == SubSeq(text, from + 1, Len(text))
\* !text.trim(): nothing but whitespace.
IsBlank(text) == \A i \in 1..Len(text) : text[i] \in {Newline, Space}

\* Math.floor(transcriptText.length / 2)
Midpoint(text) == Len(text) \div 2

\* Mutant of TooFar: the threshold is 1% of the length.
TooFar_onePercent(text, found) == 100 * (Midpoint(text) - found) > Len(text)
\* midpoint - breakPoint > transcriptText.length * 0.2
TooFar(text, found) == 5 * (Midpoint(text) - found) > Len(text)

\* Mutant of Separator: the ". " nearest to the midpoint is taken when the
\* double-newline is too far.
Separator_fallsBackWhenFar(text) ==
    LET paragraph == LastIndexOf(text, Newline, Newline, Midpoint(text))
    IN  IF paragraph = -1 \/ TooFar(text, paragraph)
        THEN LastIndexOf(text, Stop, Space, Midpoint(text))
        ELSE paragraph
\* The separator looked for: the last double-newline starting at or before
\* the midpoint; the last ". " only when there is no such double-newline.
Separator(text) ==
    LET paragraph == LastIndexOf(text, Newline, Newline, Midpoint(text))
    IN  IF paragraph = -1
        THEN LastIndexOf(text, Stop, Space, Midpoint(text))
        ELSE paragraph

\* The final breakPoint: the midpoint when no separator was found or the one
\* found is too far from it, else the index just after the separator.
BreakPoint(text) ==
    LET found == Separator(text)
    IN  IF found = -1 \/ TooFar(text, found)
        THEN Midpoint(text)
        ELSE found + 2

\* The text split, applied to any text.
SplitInit ==
    /\ rpc = "text"
    /\ \E len \in (1..MaxTextLen) \cup {2 * MaxTextLen} :
          transcriptText \in TextsOfLength(len)
    /\ filesToProcess = << >>
    /\ rfileIdx = 0
    /\ breakPoint = 0
    /\ chunk1 = << >>
    /\ chunk2 = << >>
    /\ processedChunks = << >>
    /\ rolesFiles = << >>
    /\ rcalls = << >>
    /\ rcaught = FALSE
    /\ elapsed = NoEvent
    /\ TranscribeOff
    /\ IndexOff
    /\ PlannerOff

\* processTranscriptFile, step 3: midpoint, breakPoint, chunk1 and chunk2.
processTranscriptFile_splitText ==
    /\ rpc = "text"
    /\ breakPoint' = BreakPoint(transcriptText)
    /\ chunk1' = Substring(transcriptText, 0, BreakPoint(transcriptText))
    /\ chunk2' = SubstringFrom(transcriptText, BreakPoint(transcriptText))
    /\ rpc' = "halves"
    /\ UNCHANGED <<filesToProcess, rfileIdx, transcriptText, processedChunks,
                   rolesFiles, rcalls, rcaught>>
    /\ UNCHANGED <<tvars, ivars, pvars>>
    /\ UNCHANGED inFlight
    /\ UNCHANGED elapsed
    /\ UNCHANGED exitStatus

SplitNext == processTranscriptFile_splitText

SpecSplit == SplitInit /\ [][SplitNext]_vars

\* ------------------------------------------- the script, file by file
\* The k-th transcript and its output, <name>_roles.txt in the same directory.
TranscriptPath(k) == Path(<<"text">>, <<"transcript", k>>)
RolesPath(p) == Path(p.dir, <<"roles", p.name[2]>>)

\* What fs.readFile may return: a text that splits at a double-newline, one
\* that splits at the midpoint, an empty file, a blank one, and two texts
\* whose first half is empty or blank.
RolesTexts ==
    { MakeText(6, {1}, {}), MakeText(4, {}, {}), MakeText(0, {}, {}),
      MakeText(2, {0}, {}), MakeText(1, {}, {}), MakeText(3, {0}, {}) }

\* What one axios.post to the completions endpoint can end with: a message
\* with content, content that is only whitespace, a body without content,
\* an HTTP error response, no response.
RoleResponses == {"content", "blank", "nocontent", "http", "network"}
RoleFailures == {"nocontent", "http", "network"}

\* The k-th half as the subject of a completion call.
Half(k) == Path(<<"half">>, <<k>>)
\* The error marker processTextChunk returns: it names chunkIndex/totalChunks.
PartMarker(chunkIndex) ==
    Str(<<[kind |-> "marker", src |-> << >>, name |-> <<chunkIndex, 2>>]>>)
\* The trimmed content the model answers for textChunk.
Labelled(textChunk) ==
    Str(<<[kind |-> "labelled", src |-> textChunk, name |-> << >>]>>)

\* Mutant of processTextChunk: every error is thrown on to the caller.
processTextChunk_rethrows(textChunk, chunkIndex, response) ==
    CASE response = "content" -> [threw |-> FALSE, value |-> Labelled(textChunk)]
      [] response = "blank" -> [threw |-> FALSE, value |-> Str(<< >>)]
      [] OTHER -> [threw |-> TRUE, value |-> Undefined]
\* processTextChunk(textChunk, ..., chunkIndex, totalChunks): the trimmed
\* content; a body without content throws inside the try block, and every
\* error ends in the catch block, which returns the marker.
processTextChunk(textChunk, chunkIndex, response) ==
    CASE response = "content" -> [threw |-> FALSE, value |-> Labelled(textChunk)]
      [] response = "blank" -> [threw |-> FALSE, value |-> Str(<< >>)]
      [] OTHER -> [threw |-> FALSE, value |-> PartMarker(chunkIndex)]

RolesInit ==
    /\ \E n \in 0..MaxTranscripts :
          /\ filesToProcess = [k \in 1..n |-> TranscriptPath(k)]
          /\ rolesFiles \in [{RolesPath(TranscriptPath(k)) : k \in 1..n} ->
                                {NoFile, OldText}]
    /\ rpc = "main"
    /\ rfileIdx = 0
    /\ transcriptText = << >>
    /\ breakPoint = 0
    /\ chunk1 = << >>
    /\ chunk2 = << >>
    /\ processedChunks = << >>
    /\ rcalls = << >>
    /\ rcaught = FALSE
    /\ elapsed = NoEvent
    /\ TranscribeOff
    /\ IndexOff
    /\ PlannerOff

transcriptPath == filesToProcess[rfileIdx + 1]

\* main up to the loop: the API key check and the empty-list check.
rolesMain_start ==
    /\ rpc = "main"
    /\ \E key \in BOOLEAN :
        rpc' = IF ~key \/ Len(filesToProcess) = 0 THEN "exit" ELSE "loop"
    /\ UNCHANGED <<filesToProcess, rfileIdx, rlocals, rolesFiles, rcalls, rcaught>>
    /\ UNCHANGED <<tvars, ivars, pvars>>
    /\ UNCHANGED inFlight
    /\ UNCHANGED elapsed
    /\ UNCHANGED exitStatus

\* main's for loop: call processTranscriptFile(filesToProcess[i]), or finish.
rolesMain_loop ==
    /\ rpc = "loop"
    /\ rpc' = IF rfileIdx < Len(filesToProcess) THEN "access" ELSE "exit"
    /\ UNCHANGED <<filesToProcess, rfileIdx, rlocals, rolesFiles, rcalls, rcaught>>
    /\ UNCHANGED <<tvars, ivars, pvars>>
    /\ UNCHANGED inFlight
    /\ UNCHANGED elapsed
    /\ UNCHANGED exitStatus

\* processTranscriptFile: fs.access(filePath); a missing file is skipped.
processTranscriptFile_access ==
    /\ rpc = "access"
    /\ \E found \in {"yes", "no"} :
        /\ rcalls' = Append(rcalls, Call("access", transcriptPath, found))
        /\ rpc' = IF found = "yes" THEN "read" ELSE "returned"
    /\ UNCHANGED <<filesToProcess, rfileIdx, rlocals, rolesFiles, rcaught>>
    /\ UNCHANGED <<tvars, ivars, pvars>>
    /\ UNCHANGED inFlight
    /\ \E dt \in Tick : elapsed' = Later(elapsed, dt)
    /\ UNCHANGED exitStatus

\* fs.readFile rejects: the catch block logs, the function returns.
processTranscriptFile_readFails ==
    /\ rpc = "read"
    /\ rcalls' = Append(rcalls, Call("read", transcriptPath, "error"))
    /\ rcaught' = TRUE
    /\ rpc' = "returned"
    /\ UNCHANGED <<filesToProcess, rfileIdx, rlocals, rolesFiles>>
    /\ UNCHANGED <<tvars, ivars, pvars>>
    /\ UNCHANGED inFlight
    /\ \E dt \in Tick : elapsed' = Later(elapsed, dt)
    /\ UNCHANGED exitStatus

\* fs.readFile resolves: a blank text is skipped; else the text is split,
\* and a blank half ends the job; else the first half is sent.
processTranscriptFile_read ==
    /\ rpc = "read"
    /\ \E text \in RolesTexts :
        /\ transcriptText' = text
        /\ rcalls' = Append(rcalls, Call("read", transcriptPath, "ok"))
        /\ IF IsBlank(text)
           THEN /\ rpc' = "returned"
                /\ UNCHANGED <<breakPoint, chunk1, chunk2>>
           ELSE /\ breakPoint' = BreakPoint(text)
                /\ chunk1' = Substring(text, 0, BreakPoint(text))
                /\ chunk2' = SubstringFrom(text, BreakPoint(text))
                /\ rpc' = IF IsBlank(chunk1') \/ IsBlank(chunk2')
                          THEN "returned" ELSE "half1"
    /\ UNCHANGED <<filesToProcess, rfileIdx, processedChunks, rolesFiles, rcaught>>
    /\ UNCHANGED <<tvars, ivars, pvars>>
    /\ inFlight' = IF rpc' = "half1"
                   THEN inFlight \cup {Op("completion", Half(1))}
                   ELSE inFlight
    /\ \E dt \in Tick : elapsed' = Later(elapsed, dt)
    /\ UNCHANGED exitStatus

\* The first half: processTextChunk(chunk1, ..., 1, 2), pushed; then the
\* pause before the second half starts.
processTranscriptFile_half1 ==
    /\ rpc = "half1"
    /\ \E response \in RoleResponses :
        LET r == processTextChunk(chunk1, 1, response)
        IN /\ rcalls' = Append(rcalls, Call("completion", chunk1, response))
           /\ IF r.threw
              THEN /\ rcaught' = TRUE
                   /\ rpc' = "returned"
                   /\ UNCHANGED processedChunks
              ELSE /\ processedChunks' = Append(processedChunks, r.value)
                   /\ rpc' = "delay"
                   /\ UNCHANGED rcaught
    /\ UNCHANGED <<filesToProcess, rfileIdx, transcriptText, breakPoint, chunk1,
                   chunk2, rolesFiles>>
    /\ UNCHANGED <<tvars, ivars, pvars>>
    /\ inFlight' = Await(inFlight, Op("completion", Half(1)), {})
    /\ elapsed' = 0
    /\ UNCHANGED exitStatus

\* await delay(DELAY_BETWEEN_REQUESTS_MS) between the halves.
processTranscriptFile_delay ==
    /\ rpc = "delay"
    /\ rcalls' = Append(rcalls, Call("delay", <<DELAY_BETWEEN_REQUESTS_MS>>, "ok"))
    /\ rpc' = "half2"
    /\ UNCHANGED <<filesToProcess, rfileIdx, rlocals, rolesFiles, rcaught>>
    /\ UNCHANGED <<tvars, ivars, pvars>>
    /\ inFlight' = inFlight \cup {Op("completion", Half(2))}
    /\ elapsed' = Later(elapsed, DELAY_BETWEEN_REQUESTS_MS)
    /\ UNCHANGED exitStatus

\* The second half: processTextChunk(chunk2, ..., 2, 2), pushed.
processTranscriptFile_half2 ==
    /\ rpc = "half2"
    /\ \E response \in RoleResponses :
        LET r == processTextChunk(chunk2, 2, response)
        IN /\ rcalls' = Append(rcalls, Call("completion", chunk2, response))
           /\ IF r.threw
              THEN /\ rcaught' = TRUE
                   /\ rpc' = "returned"
                   /\ UNCHANGED processedChunks
              ELSE /\ processedChunks' = Append(processedChunks, r.value)
                   /\ rpc' = "write"
                   /\ UNCHANGED rcaught
    /\ UNCHANGED <<filesToProcess, rfileIdx, transcriptText, breakPoint, chunk1,
                   chunk2, rolesFiles>>
    /\ UNCHANGED <<tvars, ivars, pvars>>
    /\ inFlight' = Await(inFlight, Op("completion", Half(2)), {})
    /\ elapsed' = 0
    /\ UNCHANGED exitStatus

\* processedChunks.join("\n\n") and fs.writeFile(outputPath, ...); a
\* rejection ends in the catch block.
processTranscriptFile_write ==
    /\ rpc = "write"
    /\ \E disk \in {"ok", "error"} :
        /\ rcalls' = Append(rcalls, Call("write", RolesPath(transcriptPath), disk))
        /\ IF disk = "ok"
           THEN /\ rolesFiles' = [rolesFiles EXCEPT
                                    ![RolesPath(transcriptPath)] = Join(processedChunks)]
                /\ UNCHANGED rcaught
           ELSE /\ rcaught' = TRUE
                /\ UNCHANGED rolesFiles
    /\ rpc' = "returned"
    /\ UNCHANGED <<filesToProcess, rfileIdx, rlocals>>
    /\ UNCHANGED <<tvars, ivars, pvars>>
    /\ UNCHANGED inFlight
    /\ \E dt \in Tick : elapsed' = Later(elapsed, dt)
    /\ UNCHANGED exitStatus

\* Back in main: before every file but the last comes a pause; then i++.
\* processTranscriptFile's locals are gone.
rolesMain_next ==
    /\ rpc = "returned"
    /\ rpc' = IF PauseNeeded(rfileIdx, Len(filesToProcess)) THEN "pause" ELSE "loop"
    /\ rfileIdx' = rfileIdx + 1
    /\ transcriptText' = << >>
    /\ breakPoint' = 0
    /\ chunk1' = << >>
    /\ chunk2' = << >>
    /\ processedChunks' = << >>
    /\ rcalls' = << >>
    /\ rcaught' = FALSE
    /\ UNCHANGED <<filesToProcess, rolesFiles>>
    /\ UNCHANGED <<tvars, ivars, pvars>>
    /\ UNCHANGED inFlight
    /\ elapsed' = 0
    /\ UNCHANGED exitStatus

\* await delay(DELAY_BETWEEN_REQUESTS_MS) between two files.
rolesMain_pause ==
    /\ rpc = "pause"
    /\ rcalls' = Append(rcalls, Call("delay", <<DELAY_BETWEEN_REQUESTS_MS>>, "ok"))
    /\ rpc' = "loop"
    /\ UNCHANGED <<filesToProcess, rfileIdx, rlocals, rolesFiles, rcaught>>
    /\ UNCHANGED <<tvars, ivars, pvars>>
    /\ UNCHANGED inFlight
    /\ elapsed' = Later(elapsed, DELAY_BETWEEN_REQUESTS_MS)
    /\ UNCHANGED exitStatus

RolesNext ==
    \/ processExit
    \/ rolesMain_start
    \/ rolesMain_loop
    \/ processTranscriptFile_access
    \/ processTranscriptFile_readFails
    \/ processTranscriptFile_read
    \/ processTranscriptFile_half1
    \/ processTranscriptFile_delay
    \/ processTranscriptFile_half2
    \/ processTranscriptFile_write
    \/ rolesMain_next
    \/ rolesMain_pause

SpecRoles == RolesInit /\ [][RolesNext]_vars

\* The text split on any text, or a run of the script.
SpecLabelling == (SplitInit \/ RolesInit) /\ [][SplitNext \/ RolesNext]_vars

\* A run of any of the three scripts.
SpecScripts ==
    (IndexInit \/ TranscribeBatchInit \/ RolesInit)
        /\ [][IndexNext \/ TranscribeNext \/ RolesNext]_vars

\* ================================================================= claims

\* ------------------------------------------------ transcribe.js, one job
Returned == tpc = "returned"
Made(op) == \E k \in 1..Len(calls) : calls[k].op = op
Has(op, res) == \E k \in 1..Len(calls) : calls[k].op = op /\ calls[k].res = res
Uploads == CallsOf("upload")
ChunkedJob == chunkPaths # << >>
Written == txtFiles[OutputPath(filePath)]
SomeUploadFailed == \E k \in 1..Len(Uploads) : Uploads[k].res \in FailedResponses

\* What position k of the transcript must hold after upload u: the marker
\* naming the chunk when the upload failed, else the text of the response.
ExpectedPart(u) ==
    IF u.res \in FailedResponses
    THEN <<[kind |-> "marker", src |-> << >>, name |-> u.arg.name]>>
    ELSE IF u.res = "text"
         THEN <<[kind |-> "text", src |-> u.arg.dir, name |-> u.arg.name]>>
         ELSE << >>
RECURSIVE ExpectedTranscript(_)
ExpectedTranscript(us) ==
    IF us = << >> THEN << >>
    ELSE ExpectedPart(Head(us))
         \o (IF Len(us) > 1 THEN <<Sep>> ELSE << >>)
         \o ExpectedTranscript(Tail(us))
PartsAsExpected ==
    /\ Len(Uploads) = Len(chunkPaths)
    /\ \A k \in 1..Len(Uploads) : Uploads[k].arg = chunkPaths[k]
    /\ Has("write", "ok") => Written = Str(ExpectedTranscript(Uploads))

\* C1 as stated: when a chunked job with a failed upload returns, the written
\* transcript has the marker at the failed positions and the returned text
\* at every other, and the temp directory has been removed.
C1_Original ==
    (Returned /\ ChunkedJob /\ SomeUploadFailed) =>
        /\ PartsAsExpected
        /\ tempDir \notin tmpOnDisk

\* C1 amended: the same transcript, and the removal of the temp directory
\* has been attempted; the directory is gone unless rmSync itself threw.
C1_PartialFailure ==
    (Returned /\ ChunkedJob /\ SomeUploadFailed) =>
        /\ PartsAsExpected
        /\ Made("rm")
        /\ Has("rm", "ok") => tempDir \notin tmpOnDisk

\* C1 witness: three chunks, the middle upload failed, its neighbours gave
\* text, the transcript was written and the directory removed.
C1_Witness ==
    /\ Returned
    /\ Len(Uploads) = 3
    /\ Uploads[1].res = "text" /\ Uploads[2].res = "network" /\ Uploads[3].res = "text"
    /\ Has("write", "ok")
    /\ Has("rm", "ok")

\* The pieces of a string between its separators.
RECURSIVE SplitAtSep(_)
SplitAtSep(tokens) ==
    IF tokens = << >> THEN << << >> >>
    ELSE LET rest == SplitAtSep(Tail(tokens))
         IN  IF Head(tokens) = Sep THEN << << >> >> \o rest
             ELSE << <<Head(tokens)>> \o Head(rest) >> \o Tail(rest)
\* Every token of a piece stems from the chunk at path p, and only once.
FromChunk(tokens, p) ==
    /\ Len(tokens) <= 1
    /\ \A k \in 1..Len(tokens) : tokens[k].name = Basename(p)

\* C2: the k-th part always stems from the k-th chunk path, the chunk paths
\* ascend in chunk index, and the written transcript has exactly one piece
\* per chunk path, in that order.
C2_ChunkOrdering ==
    /\ Len(transcriptParts) = chunkI
    /\ chunkI <= Len(chunkPaths)
    /\ \A k \in 1..(Len(chunkPaths) - 1) :
          chunkPaths[k].name[2] < chunkPaths[k + 1].name[2]
    /\ \A k \in 1..Len(transcriptParts) :
          FromChunk(transcriptParts[k].s, chunkPaths[k])
    /\ (ChunkedJob /\ Has("write", "ok")) =>
          LET pieces == SplitAtSep(Written.s)
          IN /\ Len(pieces) = Len(chunkPaths)
             /\ \A k \in 1..Len(pieces) : FromChunk(pieces[k], chunkPaths[k])

\* C2 witness: a written transcript of three parts, failures and successes mixed.
C2_Witness ==
    /\ Returned
    /\ Len(transcriptParts) = 3
    /\ Uploads[1].res = "http" /\ Uploads[2].res = "text" /\ Uploads[3].res = "notext"
    /\ Has("write", "ok")

\* C3: a job that created a temp directory attempts its removal as the last
\* thing before transcribeFile returns, whatever happened in between; a job
\* that needs no segmentation creates and removes none.
C3_TempDirLifetime ==
    /\ Has("mkdtemp", "ok") <=> tempDir # NoDir
    /\ Returned =>
        /\ tempDir # NoDir =>
              /\ calls[Len(calls)].op = "rm"
              /\ calls[Len(calls)].arg = DirPath(tempDir)
              /\ Len(CallsOf("rm")) = 1
        /\ tempDir = NoDir => ~Made("rm")
    /\ (Has("probe", "ok") /\ metadata.size <= MAX_FILE_SIZE) =>
          /\ ~Made("mkdtemp") /\ ~Made("rm") /\ ~Made("split")
          /\ tempDir = NoDir
          /\ TmpDirOf(fileIdx) \notin tmpOnDisk

\* C3 witness: the write failed after the chunks were transcribed, and the
\* removal was still attempted.
C3_Witness ==
    /\ Returned
    /\ tempDir # NoDir
    /\ caught = "write"
    /\ Made("rm")

\* C5 as stated, for the chunked script: a file whose .txt existed when its
\* job started is not probed, split, uploaded or written.
C5_ExistingOutputIsDone ==
    preExisted =>
        ~Made("probe") /\ ~Made("split") /\ ~Made("upload") /\ ~Made("write")

\* C7 as stated, for the chunked script: when the single upload of a file
\* within the size limit fails, no .txt file is written for it.
C7_FailedUploadWritesNothing ==
    (Returned /\ ~ChunkedJob /\ SomeUploadFailed) =>
        /\ ~Has("write", "ok")
        /\ preExisted \/ Written = NoFile

\* ------------------------------------------------------ index.js, the batch
IMade(op) == \E k \in 1..Len(icalls) : icalls[k].op = op
IHas(op, res) == \E k \in 1..Len(icalls) : icalls[k].op = op /\ icalls[k].res = res
IUploads == SelectSeq(icalls, LAMBDA c : c.op = "upload")
JobEnded == ipc = "after"

\* Every video of the run had its transcript when the run started.
AllTranscribed ==
    \A k \in 1..Len(videoFiles) : textAtStart[TextPath(videoFiles[k])] # NoFile

\* C4: when every video already has its transcript, a run of "continue"
\* answers extracts, probes, uploads and writes nothing and leaves every
\* transcript and audio file as it was.
C4_BatchIdempotence ==
    (AllTranscribed /\ skippedCount = 0 /\ userChoice # "exit") =>
        /\ icalls = << >>
        /\ ipc \notin {"extract", "probe", "upload"}
        /\ textFiles = textAtStart
        /\ \A k \in 1..Len(videoFiles) :
              audioFiles[AudioPath(videoFiles[k])] \in {NoFile, OldAudio}
        /\ failedJobs = 0

\* C4 witness: two transcribed videos, both answered "continue", main returned.
C4_Witness ==
    /\ AllTranscribed
    /\ ipc = "exit"
    /\ Len(videoFiles) = 2
    /\ processedCount = 2

\* Over the limits of the service: more than 3 GB or more than 10 hours.
OverLimits(m) ==
    \/ m.size[1] >= 4
    \/ m.size[1] = 3 /\ m.size[2] >= 1
    \/ m.duration > 36000000
AtLimits(m) == m.size = <<3, 0>> /\ m.duration = 36000000

\* C6: a file probed over a limit is never uploaded, its job ends at once in
\* the catch block and writes no transcript; a file exactly at both limits
\* is uploaded.
C6_PreflightLimit ==
    /\ (IHas("probe", "ok") /\ OverLimits(probed)) =>
          /\ ipc = "after"
          /\ icaught = "transcribeAudioFile"
          /\ ~IMade("upload") /\ ~IMade("write")
          /\ textFiles[textPath] = NoFile
    /\ (IHas("probe", "ok") /\ AtLimits(probed)) =>
          ipc = "upload" \/ IMade("upload")

\* C6 witness: a file one byte over 3 GB whose job has ended.
C6_Witness ==
    /\ JobEnded
    /\ IHas("probe", "ok")
    /\ probed.size = <<3, 1>>

\* The upload of the current job failed or came back without a text field.
UploadFailedHard ==
    \E k \in 1..Len(IUploads) : IUploads[k].res \in {"http", "network", "notext"}
HasMarker(v) == \E k \in 1..Len(v.s) : v.s[k].kind = "marker"

\* C8: after a failed upload (HTTP error, network error, no text field) the
\* job has substituted no marker, written nothing, and the video's
\* transcript does not exist, so the next run does not skip it.
C8_DirectFailureIsHard ==
    (JobEnded /\ UploadFailedHard) =>
        /\ icaught = "transcribeAudioFile"
        /\ ~HasMarker(audioTranscript)
        /\ ~IHas("write", "ok")
        /\ textFiles[textPath] = NoFile
        /\ ~AlreadyProcessed

\* C8 witness: a response without a text field ended the job.
C8_Witness ==
    /\ JobEnded
    /\ IHas("upload", "notext")

\* main's loop has shown at least one menu.
LoopStarted == videoIdx > 0 \/ userChoice # "none"

\* C9: no failure of a file's job ends main: once its loop runs, main only
\* ends by the user's exit or after the last file, in both scripts, and a
\* job that failed hands over to the next file.
C9_FailureIsolation ==
    /\ (ipc \in {"exit", "crashed"} /\ LoopStarted) =>
          userChoice = "exit" \/ videoIdx = Len(videoFiles)
    /\ (JobEnded /\ icaught # "none") => videoIdx < Len(videoFiles)
    /\ failedJobs <= processedCount
    /\ (tpc = "exit" /\ apiKeySet) => fileIdx = totalFiles
    /\ (Returned /\ caught # "none") => fileIdx < totalFiles

\* C9 witness: the first video's job failed and the second was processed
\* to a written transcript.
C9_Witness ==
    /\ failedJobs = 1
    /\ videoIdx = 1
    /\ JobEnded
    /\ IHas("write", "ok")

\* C10: the step that takes the answer "exit", and any step after it, makes
\* no call, shows no menu, and changes no file and no counter.
C10_ExitStopsBatch ==
    [][(userChoice' = "exit" \/ userChoice = "exit") =>
          /\ ipc' = "exit"
          /\ icalls' = << >>
          /\ UNCHANGED <<videoIdx, processedCount, skippedCount, audioFiles,
                         textFiles, failedJobs>>]_vars

\* C10 witness: exit at the second menu, after the first video was
\* transcribed; its transcript is on disk.
C10_Witness ==
    /\ ipc = "exit"
    /\ userChoice = "exit"
    /\ videoIdx = 1
    /\ processedCount = 1
    /\ textFiles[TextPath(videoFiles[1])] = Str(<<TextOf(AudioPath(videoFiles[1]))>>)

\* ------------------------------------------------- splitAudioFile's plan
\* C11: for positive duration, size and target the plan has numChunks =
\* ceil(size / target), the least n with n * target >= size, which is at
\* least 1, and chunkDuration = floor(duration / numChunks), the greatest q
\* with q * numChunks <= duration, which is at least 0; a second call with
\* the same arguments gives the same plan.
C11_PlannerArithmetic ==
    /\ ppc \in {"planned", "replanned"} =>
          /\ plan.numChunks >= 1
          /\ plan.numChunks * planInput.targetChunkSizeBytes >= planInput.fileSize
          /\ (plan.numChunks - 1) * planInput.targetChunkSizeBytes < planInput.fileSize
          /\ plan.chunkDuration >= 0
          /\ plan.chunkDuration * plan.numChunks <= planInput.duration
          /\ (plan.chunkDuration + 1) * plan.numChunks > planInput.duration
    /\ ppc = "replanned" => planAgain = plan

\* C11 witness: a size that is a multiple of the target and a duration
\* shorter than the number of chunks, planned twice.
C11_Witness ==
    /\ ppc = "replanned"
    /\ planInput = [duration |-> 2, fileSize |-> 6, targetChunkSizeBytes |-> 2]
    /\ plan = [numChunks |-> 3, chunkDuration |-> 0]

\* ------------------------------------------------ transcribe.js, the plan
\* C12 as stated: whenever a file takes the oversized branch, the
\* segment_time handed to the transcoder is at least 1 second.
C12_SegmentTimeAtLeastOne ==
    (segmentTime # NoSegmentTime /\ metadata.size > MAX_FILE_SIZE
        /\ metadata.duration > 0) => segmentTime >= 1

\* ------------------------------------- the role-labelling script, the split
SplitDone == rpc = "halves"
\* The nearest double-newline and the nearest ". " starting at or before
\* the midpoint (-1: none), and being within 20% of the length of it.
NearestParagraph == LastIndexOf(transcriptText, Newline, Newline, Midpoint(transcriptText))
NearestSentence == LastIndexOf(transcriptText, Stop, Space, Midpoint(transcriptText))
Within20(found) ==
    /\ found # -1
    /\ 5 * (Midpoint(transcriptText) - found) <= Len(transcriptText)
HalvesAround(point) ==
    /\ breakPoint = point
    /\ chunk1 = SubSeq(transcriptText, 1, point)
    /\ chunk2 = SubSeq(transcriptText, point + 1, Len(transcriptText))

\* C13 as stated: after the double-newline if it is within 20%; else after
\* the ". " if that is within 20%; else the exact midpoint.
C13_Original ==
    SplitDone =>
        IF Within20(NearestParagraph) THEN HalvesAround(NearestParagraph + 2)
        ELSE IF Within20(NearestSentence) THEN HalvesAround(NearestSentence + 2)
        ELSE HalvesAround(Midpoint(transcriptText))

\* C13 amended: the ". " is looked for only when no double-newline starts at
\* or before the midpoint; the separator looked for is used when it is
\* within 20%, and the exact midpoint in every other case.
C13_SplitRule ==
    SplitDone =>
        IF NearestParagraph # -1
        THEN IF Within20(NearestParagraph)
             THEN HalvesAround(NearestParagraph + 2)
             ELSE HalvesAround(Midpoint(transcriptText))
        ELSE IF Within20(NearestSentence)
             THEN HalvesAround(NearestSentence + 2)
             ELSE HalvesAround(Midpoint(transcriptText))

\* C13 witness: a double-newline too far from the midpoint, a ". " within
\* 20% of it, and the text split at the exact midpoint.
C13_Witness ==
    /\ SplitDone
    /\ NearestParagraph # -1
    /\ ~Within20(NearestParagraph)
    /\ Within20(NearestSentence)
    /\ breakPoint = Midpoint(transcriptText)

\* The index at 48% of the length, when that is a whole number.
At48 == (48 * Len(transcriptText)) \div 100
ParagraphAt48 ==
    /\ Len(transcriptText) > 0
    /\ (48 * Len(transcriptText)) % 100 = 0
    /\ transcriptText[At48 + 1] = Newline
    /\ transcriptText[At48 + 2] = Newline
    /\ \A i \in (At48 + 1)..Midpoint(transcriptText) :
          ~(transcriptText[i + 1] = Newline /\ transcriptText[i + 2] = Newline)

\* C14: with a double-newline starting at 48% of the length and none
\* starting between it and the midpoint, the first half ends with that
\* double-newline, the second half starts right after it, and the split
\* point is not the exact midpoint.
C14_SplitBoundary ==
    (SplitDone /\ ParagraphAt48) =>
        /\ Len(chunk1) = At48 + 2
        /\ chunk1[At48 + 1] = Newline /\ chunk1[At48 + 2] = Newline
        /\ chunk1 \o chunk2 = transcriptText
        /\ breakPoint # Midpoint(transcriptText)

\* C14 witness: 50 characters, the double-newline at index 24, one before
\* the midpoint.
C14_Witness ==
    /\ SplitDone
    /\ ParagraphAt48
    /\ Len(transcriptText) = 2 * MaxTextLen
    /\ At48 < Midpoint(transcriptText)
    /\ breakPoint = At48 + 2

\* ----------------------------------- the role-labelling script, one job
RReturned == rpc = "returned"
RHas(op, res) == \E k \in 1..Len(rcalls) : rcalls[k].op = op /\ rcalls[k].res = res
Completions == SelectSeq(rcalls, LAMBDA c : c.op = "completion")
RolesWritten == rolesFiles[RolesPath(transcriptPath)]
\* What half k must contribute after completion call c: the marker naming
\* k/2 when the call failed, else the trimmed content.
ExpectedHalf(c, k) ==
    IF c.res \in RoleFailures
    THEN <<[kind |-> "marker", src |-> << >>, name |-> <<k, 2>>]>>
    ELSE IF c.res = "content"
         THEN <<[kind |-> "labelled", src |-> c.arg, name |-> << >>]>>
         ELSE << >>

\* C15: a failed completion call of either half leaves the marker for that
\* half, the other half is sent all the same (first chunk1, then chunk2),
\* the write is made, and the file written holds the result of half 1, a
\* blank line and the result of half 2.
C15_PerHalfFailure ==
    /\ Len(Completions) <= 2
    /\ Len(processedChunks) = Len(Completions)
    /\ Len(Completions) >= 1 =>
          /\ Completions[1].arg = chunk1
          /\ processedChunks[1].s = ExpectedHalf(Completions[1], 1)
    /\ Len(Completions) = 2 =>
          /\ Completions[2].arg = chunk2
          /\ processedChunks[2].s = ExpectedHalf(Completions[2], 2)
    /\ (RReturned /\ Len(Completions) >= 1) =>
          /\ Len(Completions) = 2
          /\ rcalls[Len(rcalls)].op = "write"
          /\ RHas("write", "ok") =>
                RolesWritten = Str(ExpectedHalf(Completions[1], 1) \o <<Sep>>
                                   \o ExpectedHalf(Completions[2], 2))

\* C15 witness: the first half came back without content, the second was
\* labelled, and the output was written.
C15_Witness ==
    /\ RReturned
    /\ Len(Completions) = 2
    /\ Completions[1].res = "nocontent"
    /\ Completions[2].res = "content"
    /\ RHas("write", "ok")

LegacyWaits == tpc \in {"probe", "split", "direct", "chunk"}
IndexWaits == ipc \in {"extract", "probe", "upload"}
RolesWaits == rpc \in {"half1", "half2"}

\* C17: at most one external operation is in flight, and it is the one the
\* script waits for, on the current file: the upload of chunk i+1 is in
\* flight only after the uploads of chunks 1..i have settled; while a job
\* writes, cleans up, returns, and until the next job reaches its first
\* operation, nothing is in flight.
C17_StrictSequencing ==
    /\ Cardinality(inFlight) <= 1
    /\ tpc = "probe" => inFlight = {Op("probe", filePath)}
    /\ tpc = "split" => inFlight = {Op("split", filePath)}
    /\ tpc = "direct" => inFlight = {Op("upload", filePath)}
    /\ tpc = "chunk" =>
          /\ inFlight = {Op("upload", chunkPaths[Len(Uploads) + 1])}
          /\ \A k \in 1..Len(Uploads) : Uploads[k].arg = chunkPaths[k]
    /\ ipc = "extract" => inFlight = {Op("extract", videoFile)}
    /\ ipc = "probe" => inFlight = {Op("probe", audioPath)}
    /\ ipc = "upload" => inFlight = {Op("upload", audioPath)}
    /\ rpc = "half1" => inFlight = {Op("completion", Half(1))} /\ Len(Completions) = 0
    /\ rpc = "half2" => inFlight = {Op("completion", Half(2))} /\ Len(Completions) = 1
    /\ ~(LegacyWaits \/ IndexWaits \/ RolesWaits) => inFlight = {}

\* C17 witness: the second file of the list, its first chunk uploaded and
\* settled, the upload of its second chunk in flight.
C17_Witness ==
    /\ tpc = "chunk"
    /\ fileIdx = 1
    /\ Len(Uploads) = 1
    /\ inFlight = {Op("upload", chunkPaths[2])}

\* ------------------------------------------------- index.js, audio reuse
\* The step is the call of extractAudio.
ExtractStep ==
    /\ Len(icalls') = Len(icalls) + 1
    /\ icalls'[Len(icalls')].op = "extract"

\* C18: processVideoFile goes to extractAudio exactly when neither the
\* transcript nor the .mp3 exists; extractAudio is the only step that
\* touches an .mp3; with the .mp3 on disk and no transcript the job goes
\* straight to transcribeAudioFile(audioPath), whose probe and upload are
\* of that file.
C18_AudioReuse ==
    [][/\ ipc = "process" =>
            /\ ipc' = "extract" <=>
                  (textFiles[textPath] = NoFile /\ audioFiles[audioPath] = NoFile)
            /\ ipc' = "probe" <=>
                  (textFiles[textPath] = NoFile /\ audioFiles[audioPath] # NoFile)
       /\ ExtractStep => (ipc = "extract" /\ audioFiles[audioPath] = NoFile
                             /\ textFiles[textPath] = NoFile)
       /\ ipc = "extract" => ExtractStep
       /\ audioFiles' # audioFiles => ExtractStep
       /\ \A k \in 1..Len(icalls') :
             icalls'[k].op \in {"probe", "upload"} => icalls'[k].arg = audioPath
      ]_vars

\* C18 witness: the .mp3 was on disk, nothing was extracted, the old file
\* was uploaded and is still what it was.
C18_Witness ==
    /\ JobEnded
    /\ ~IMade("extract")
    /\ IHas("upload", "text")
    /\ audioFiles[audioPath] = OldAudio

\* -------------------------------------------------- the top-level handler
\* C19 as stated: when an error has left main, it is logged and the process
\* ends with a non-zero exit status.
C19_TopLevelErrorExit ==
    (exitStatus # Running /\ icaught = "main") => exitStatus # 0

\* ------------------------------------------- transcribe.js, failed chunks
\* C20 as stated: the part recorded for a chunk whose upload ended with an
\* HTTP error, a network error or a body without the text field is a marker
\* string, never an empty or undefined part.
C20_EveryFailureBecomesMarker ==
    ChunkedJob =>
        \A k \in 1..Len(transcriptParts) :
            Uploads[k].res \in {"http", "network", "notext"} =>
                /\ transcriptParts[k].t = "string"
                /\ HasMarker(transcriptParts[k])

\* ------------------------------------------- transcribe.js, the size check
\* C21: a probed file takes the segmentation branch (temp directory, plan,
\* ffmpeg) exactly when its size is strictly greater than 25 * 1024 * 1024
\* bytes and is then never uploaded whole; a file of at most that size,
\* the limit itself included, gets no temp directory, no plan and no
\* segment, and exactly one upload, of the whole file.
C21_SizeCheck ==
    Has("probe", "ok") =>
        /\ Made("mkdtemp") <=> metadata.size > 25 * 1024 * 1024
        /\ metadata.size > 25 * 1024 * 1024 =>
              /\ tpc # "direct"
              /\ \A k \in 1..Len(Uploads) : Uploads[k].arg # filePath
        /\ metadata.size <= 25 * 1024 * 1024 =>
              /\ tempDir = NoDir /\ TmpDirOf(fileIdx) \notin tmpOnDisk
              /\ segmentTime = NoSegmentTime
              /\ ~Made("split") /\ chunkPaths = << >> /\ chunksOnDisk = {}
              /\ IF tpc = "direct" THEN Uploads = << >>
                 ELSE /\ Len(Uploads) = 1
                      /\ Uploads[1].arg = filePath

\* C21 witness: a file of exactly 25 * 1024 * 1024 bytes whose job returned
\* after one upload of the whole file.
C21_Witness ==
    /\ Returned
    /\ metadata.size = 25 * 1024 * 1024
    /\ Len(Uploads) = 1
    /\ Uploads[1].arg = filePath
    /\ tempDir = NoDir

\* ------------------------------------------ transcribe.js, the segmenter
\* The indexes 0 .. numChunks-1 of the plan, and those whose file exists.
Planned == 0..(NumChunks(metadata.size) - 1)
PlannedOnDisk == chunksOnDisk \cap Planned
SplitRejected == Has("split", "error") \/ Has("split", "nochunks")

\* C22: when ffmpeg has ended, splitAudioFile resolves with the paths
\* chunk_i of tempDir for exactly the i in 0 .. numChunks-1 whose file
\* exists, in ascending order of i, and rejects when there is no such i;
\* it rejects when ffmpeg reports an error; after either rejection the job
\* uploads nothing, writes nothing and leaves the output as it was.
C22_SegmenterResult ==
    /\ Has("split", "ok") =>
          /\ PlannedOnDisk # {}
          /\ Len(chunkPaths) = Cardinality(PlannedOnDisk)
          /\ \A k \in 1..Len(chunkPaths) :
                /\ chunkPaths[k].dir = tempDir
                /\ chunkPaths[k].name[1] = "chunk"
                /\ chunkPaths[k].name[2] \in PlannedOnDisk
          /\ \A j, k \in 1..Len(chunkPaths) :
                j < k => chunkPaths[j].name[2] < chunkPaths[k].name[2]
    /\ Has("split", "nochunks") => PlannedOnDisk = {}
    /\ SplitRejected =>
          /\ chunkPaths = << >>
          /\ caught = "split"
          /\ tpc \in {"finally", "returned"}
          /\ ~Made("upload") /\ ~Made("write")
          /\ Written = (IF preExisted THEN OldText ELSE NoFile)

\* C22 witness: a plan of three chunks of which the middle one is missing;
\* the two others were returned and the job went on to its end.
C22_Witness ==
    /\ Returned
    /\ Has("split", "ok")
    /\ NumChunks(metadata.size) = 3
    /\ chunksOnDisk = {0, 2}
    /\ chunkPaths = <<ChunkPath(tempDir, 0), ChunkPath(tempDir, 2)>>

\* ------------------------------------ the role-labelling script, the pauses
\* C23: when the second completion call of a file starts, at least 5000 ms
\* have passed since the first one ended; when the first completion call
\* of a later file starts, at least 5000 ms have passed since the job of
\* the file before it ended; main pauses only when another file follows,
\* so no pause comes after the last file.
C23_RateLimitDelay ==
    /\ rpc = "half2" => elapsed >= 5000
    /\ (rpc = "half1" /\ rfileIdx > 0) => elapsed >= 5000
    /\ rpc = "pause" => rfileIdx < Len(filesToProcess)
    /\ (rpc \in {"loop", "exit"} /\ rfileIdx = Len(filesToProcess)) =>
          ~RHas("delay", "ok")

\* C23 witness: the second file's second call is about to start; its first
\* call started after the pause between the files.
C23_Witness ==
    /\ rpc = "half2"
    /\ rfileIdx = 1
    /\ Len(Completions) = 1
    /\ rcalls[1] = Call("delay", <<5000>>, "ok")
    /\ elapsed >= 5000

\* ------------------------------------------------ index.js, the upload form
FormNames == {formData[k].name : k \in 1..Len(formData)}
Attached(name) == name \in FormNames
\* The text of what was appended under name.
ValueOf(name) ==
    (CHOOSE e \in {formData[k] : k \in 1..Len(formData)} : e.name = name).value.text
AlwaysSent ==
    {"model_id", "diarize", "tag_audio_events", "timestamps_granularity",
     "use_multi_channel", "file_format", "enable_logging", "webhook"}

\* C24: in the form of an upload, each of language_code, num_speakers,
\* diarization_threshold, temperature, seed and webhook_id is present
\* exactly when its configured value is not null; the file and the eight
\* other fields are always present; every field is present once and
\* carries the text of its configured value.
C24_UnsetFieldsOmitted ==
    IMade("upload") =>
        /\ \A name \in {"language_code", "num_speakers", "diarization_threshold",
                         "temperature", "seed", "webhook_id"} :
              Attached(name) <=> config[name].type # "null"
        /\ Attached("file")
        /\ \A name \in AlwaysSent : Attached(name)
        /\ FormNames \subseteq {"file"} \cup DOMAIN config
        /\ Len(formData) = Cardinality(FormNames)
        /\ \A name \in FormNames \ {"file"} : ValueOf(name) = config[name].text

\* C24 witness: num_speakers and seed are set, the four others are null,
\* and the upload was made.
C24_Witness ==
    /\ IMade("upload")
    /\ config.num_speakers.type = "number" /\ config.seed.type = "number"
    /\ config.language_code.type = "null" /\ config.webhook_id.type = "null"
    /\ config.temperature.type = "null"
    /\ config.diarization_threshold.type = "null"
    /\ Len(formData) = 11

\* ------------------------------------------- transcribe.js, failed cleanup
\* The step is a call of rmSync that throws.
CleanupFails ==
    /\ tpc = "finally"
    /\ calls' = Append(calls, Call("rm", DirPath(tempDir), "error"))

\* C25: the step in which rmSync throws changes no transcript and not the
\* error the job has logged, and transcribeFile returns; main then moves
\* on to the next index, and every index below the length of the list has
\* its job started.
C25_CleanupFailureNonFatal ==
    [][/\ CleanupFails =>
            /\ tpc' = "returned"
            /\ UNCHANGED <<txtFiles, caught, transcript, fileIdx>>
       /\ (tpc = "returned" /\ Has("rm", "error")) =>
            /\ tpc' = "loop"
            /\ fileIdx' = fileIdx + 1
            /\ UNCHANGED txtFiles
       /\ (tpc = "loop" /\ fileIdx < totalFiles) => tpc' = "exists"
      ]_vars

\* C25 witness: the first file's temp directory is still on disk, its
\* transcript is written, and the job of the second file has started.
C25_Witness ==
    /\ fileIdx = 1
    /\ tpc = "exists"
    /\ TmpDirOf(0) \in tmpOnDisk
    /\ txtFiles[OutputPath(SrcPath(1))] \notin {NoFile, OldText}

\* ------------------------------------ transcribe.js, segments past the plan
\* The segment files ffmpeg wrote with an index of numChunks or more.
BeyondPlan == chunksOnDisk \ Planned
\* The chunk indexes the tokens of a string stem from.
ChunksIn(v) ==
    {v.s[k].name[2] : k \in {j \in 1..Len(v.s) : v.s[j].kind \in {"text", "marker"}}}

\* C26: splitAudioFile returns at most numChunks paths, all with an index
\* below numChunks; a segment file with an index of numChunks or more is
\* never uploaded and nothing of it is in the written transcript; when
\* such a file exists and every upload and the write went well, the job
\* has logged no error and the transcript holds no marker.
C26_SegmentsBeyondPlan ==
    ChunkedJob =>
          /\ Len(chunkPaths) <= NumChunks(metadata.size)
          /\ \A k \in 1..Len(chunkPaths) :
                chunkPaths[k].name[2] < NumChunks(metadata.size)
          /\ \A i \in BeyondPlan, k \in 1..Len(Uploads) :
                Uploads[k].arg # ChunkPath(tempDir, i)
          /\ Has("write", "ok") => ChunksIn(Written) \cap BeyondPlan = {}
          /\ (Returned /\ BeyondPlan # {} /\ Has("write", "ok")
                 /\ \A k \in 1..Len(Uploads) : Uploads[k].res = "text") =>
                /\ caught = "none"
                /\ ~HasMarker(Written)

\* C26 witness: 7 seconds planned as two chunks are cut every 3 seconds,
\* ffmpeg wrote three segments, two were uploaded and the transcript was
\* written from these two with no error logged.
C26_Witness ==
    /\ Returned
    /\ metadata.duration = 7
    /\ NumChunks(metadata.size) = 2
    /\ segmentTime = 3
    /\ chunksOnDisk = {0, 1, 2}
    /\ Len(Uploads) = 2
    /\ Written = Str(<<TextOf(ChunkPath(tempDir, 0)), Sep, TextOf(ChunkPath(tempDir, 1))>>)
    /\ caught = "none"

\* ------------------------------------------------- index.js, the counters
\* C27: processedCount + skippedCount is the loop index whenever main is in
\* its loop, so it is the number of files when the loop has run to its
\* end; processedCount goes up by one exactly in the step that follows the
\* return of processVideoFile, which only a "continue" answer calls,
\* whether the job skipped an existing transcript, failed or succeeded;
\* skippedCount goes up by one exactly on a "skip" answer.
C27_BatchCounters ==
    /\ [](processedCount + skippedCount = videoIdx)
    /\ []((ipc = "exit" /\ LoopStarted /\ userChoice # "exit") =>
             processedCount + skippedCount = Len(videoFiles))
    /\ []((ipc \in {"process", "extract", "probe", "upload", "after"}) =>
             userChoice = "continue")
    /\ [][/\ ipc = "after" => processedCount' = processedCount + 1
          /\ processedCount' # processedCount =>
                /\ ipc = "after" /\ userChoice = "continue"
                /\ processedCount' = processedCount + 1
          /\ (ipc = "menu" /\ userChoice' = "continue") => ipc' = "process"
          /\ skippedCount' # skippedCount =>
                /\ userChoice' = "skip"
                /\ skippedCount' = skippedCount + 1
          /\ (ipc = "menu" /\ ipc' = "menu" /\ userChoice' = "skip") =>
                skippedCount' = skippedCount + 1
         ]_vars

\* C27 witness: of two files the first had its transcript already and the
\* second failed; both were answered "continue" and main ran to its end
\* with processedCount 2.
C27_Witness ==
    /\ ipc = "exit"
    /\ Len(videoFiles) = 2
    /\ videoIdx = 2
    /\ processedCount = 2
    /\ failedJobs = 1
    /\ textAtStart[TextPath(videoFiles[1])] # NoFile

\* ------------------------------------------- index.js, the success message
ExtractFailed == IHas("extract", "error") \/ IHas("extract", "error-partial")

HasSplit == SplitDone \/ (RHas("read", "ok") /\ ~IsBlank(transcriptText))
BlankHalf == IsBlank(chunk1) \/ IsBlank(chunk2)

\* C28: once a text is split, 0 <= breakPoint <= length, chunk1 is the
\* first breakPoint characters, and chunk1 followed by chunk2 is the text;
\* a job whose text gave an empty or whitespace-only half has returned
\* without a completion call and without a write, and its output file is as
\* it was.
C28_SplitIsPartition ==
    /\ HasSplit =>
          /\ 0 <= breakPoint /\ breakPoint <= Len(transcriptText)
          /\ Len(chunk1) = breakPoint
          /\ Len(chunk1) + Len(chunk2) = Len(transcriptText)
          /\ chunk1 \o chunk2 = transcriptText
    /\ (RHas("read", "ok") /\ BlankHalf) =>
          /\ rpc = "returned"
          /\ Completions = << >>
          /\ ~RHas("write", "ok") /\ ~RHas("write", "error")
          /\ RolesWritten \in {NoFile, OldText}
          /\ inFlight = {}

\* C28 witness: a text of three characters that starts with a double
\* newline is split at the midpoint; the first half is a single newline
\* and the job returned without a call.
C28_Witness ==
    /\ rpc = "returned"
    /\ RHas("read", "ok")
    /\ Len(transcriptText) = 3
    /\ breakPoint = 1
    /\ chunk1 = <<Newline>>
    /\ chunk2 = <<Newline, Letter>>
    /\ rcalls[Len(rcalls)].op = "read"

\* ------------------------------------------- index.js, equal base names
\* The list is two videos that differ in their extension only; the job of
\* the second is the current one.
Collide ==
    /\ Len(videoFiles) = 2
    /\ videoFiles[1] # videoFiles[2]
    /\ videoFiles[1].name[1] = videoFiles[2].name[1]
    /\ videoFiles[1].name[2] = videoFiles[2].name[2]
SecondJob == Collide /\ videoIdx = 1

\* C30: two videos that differ in their extension only have one audio path
\* and one transcript path; when the transcript exists as the second
\* video's turn begins, the rest of that turn makes no call and changes no
\* file; while the .mp3 is the one extracted from the first video, the
\* second video's job does not extract, and what it probes and uploads is
\* that file.
C30_BaseNameCollision ==
    /\ [](Collide =>
            /\ AudioPath(videoFiles[1]) = AudioPath(videoFiles[2])
            /\ TextPath(videoFiles[1]) = TextPath(videoFiles[2]))
    /\ []((SecondJob /\ audioFiles[AudioPath(videoFiles[2])] = AudioOf(videoFiles[1])) =>
            /\ ipc # "extract"
            /\ ~IMade("extract")
            /\ \A k \in 1..Len(icalls) :
                  icalls[k].op \in {"probe", "upload"} =>
                      icalls[k].arg = AudioPath(videoFiles[1]))
    /\ [][/\ (SecondJob /\ icalls = << >> /\ ipc \in {"menu", "process"}
                /\ textFiles[TextPath(videoFiles[2])] # NoFile) =>
                 /\ icalls' = << >>
                 /\ ipc' \in {"menu", "process", "after", "exit"}
                 /\ UNCHANGED <<audioFiles, textFiles>>
          /\ (SecondJob /\ ipc = "process"
                /\ textFiles[TextPath(videoFiles[2])] = NoFile
                /\ audioFiles[AudioPath(videoFiles[2])] = AudioOf(videoFiles[1])) =>
                 /\ ipc' = "probe"
                 /\ inFlight' = {Op("probe", AudioPath(videoFiles[1]))}
                 /\ UNCHANGED audioFiles
         ]_vars

\* C30 witness: the first video was extracted and transcribed in this run;
\* the second, answered "continue", ended its job without a call.
C30_Witness ==
    /\ SecondJob
    /\ JobEnded
    /\ userChoice = "continue"
    /\ icalls = << >>
    /\ textAtStart[TextPath(videoFiles[2])] = NoFile
    /\ audioFiles[AudioPath(videoFiles[2])] = AudioOf(videoFiles[1])
    /\ textFiles[TextPath(videoFiles[2])] = Str(<<TextOf(AudioPath(videoFiles[1]))>>)

====
